---------------------------- MODULE Spec2Model ----------------------------
(***************************************************************************)
(* Model of the graphqomb-studio backend: the wire model's validators      *)
(* (src/backend/src/models/dto.py), the converters between id space and    *)
(* engine index space (src/backend/src/services/converter.py) and the      *)
(* request handlers (src/backend/src/routers/*.py).                        *)
(*                                                                         *)
(* Strings are sequences of code points, so that sorting, joining and      *)
(* splitting are computed as Python computes them.  A Python dict is a     *)
(* sequence of <<key, value>> pairs with distinct keys, in insertion       *)
(* order.  None is the empty tuple and a present value v is <<v>>.           *)
(***************************************************************************)
EXTENDS Integers, Sequences, FiniteSets, TLC

VARIABLES
    \* ---- normalize_edge_id applied to a pair of ids (SpecEdgeId)
    ne_source, ne_target, ne_result,
    \* ---- the schedule translator applied to an engine schedule (SpecSched)
    sc_ids,      \* the project's node ids, in list order
    sc_stage,    \* how many translations have been applied
    sc_engine,   \* the engine's schedule: three dicts and the time slices
    sc_wire,     \* schedule_to_dto of sc_engine
    sc_back,     \* dto_to_schedule of sc_wire
    sc_wire2,    \* schedule_to_dto of sc_back
    \* ---- one request after the other through the four endpoints (Spec)
    rq_pc,          \* idle, parse, handler, built, done
    rq_endpoint,    \* the endpoint the request is for
    rq_strategy,    \* /api/schedule's strategy query parameter
    rq_timeout,     \* a timeout query parameter sent to /api/schedule, if any
    rq_flow,        \* project.flow, once the handler has read it
    rq_nodes,       \* project.nodes, as far as parsed
    rq_edges,       \* project.edges, as far as parsed
    rq_parsed,      \* the item parsed last and whether it was accepted
    rq_calls,       \* the calls made on the engine for this request
    rq_node_map,    \* dto_to_graphstate's id -> index dict
    rq_reverse_map, \* the handler's index -> id dict
    rq_exc,         \* the exception raised in the handler, if any
    rq_response,    \* the response sent
    \* ---- one payload parsed into one request body model (SpecSchema)
    sm_model,    \* the model's class name
    sm_fields,   \* the field names the payload carries
    sm_result,   \* "none", or what model_validate answered
    \* ---- translate_error_message applied to an engine text (SpecTranslate)
    tr_pieces,   \* the pieces the engine's text is made of
    tr_map,      \* the reverse map: index -> id
    tr_result,   \* the translated text, once translated
    \* ---- requests handled at the same time (SpecConcurrent)
    cc_request,     \* per request: the project's node ids, the engine's answer
    cc_pc,          \* per request: nodes, respond, done
    cc_calls,       \* per request: the calls made on the request's graph
    cc_node_map,    \* per request: dto_to_graphstate's node_map
    cc_reverse_map, \* per request: the handler's reverse_map
    cc_response,    \* per request: the response
    cc_overlapped,  \* two requests have been inside the node loop together
    \* ---- the flow translator (SpecFlow)
    fl_flow,        \* project.flow: xflow and zflow as sent
    fl_node_map,    \* the forward id map
    fl_result,      \* None, or Some of what dto_to_flow returned
    \* ---- the schedule loader (SpecLoad)
    ld_ids,         \* the project's node ids, in list order
    ld_schedule,    \* the ScheduleResultDTO the client sent
    ld_result,      \* NoSchedule, or what dto_to_schedule returned
    \* ---- parsing dimension and coordinates (SpecProject)
    pj_dimension,   \* the dimension the payload declares
    pj_coordinates, \* the coordinate payloads of the nodes, in list order
    pj_parsed       \* None, or Some of the parse: ok, and each coordinate's variant

ne_vars == <<ne_source, ne_target, ne_result>>
sc_vars == <<sc_ids, sc_stage, sc_engine, sc_wire, sc_back, sc_wire2>>
rq_vars == <<rq_pc, rq_endpoint, rq_strategy, rq_timeout, rq_flow, rq_nodes, rq_edges, rq_parsed,
             rq_calls, rq_node_map, rq_reverse_map, rq_exc, rq_response>>
sm_vars == <<sm_model, sm_fields, sm_result>>
tr_vars == <<tr_pieces, tr_map, tr_result>>
cc_vars == <<cc_request, cc_pc, cc_calls, cc_node_map, cc_reverse_map, cc_response, cc_overlapped>>
fl_vars == <<fl_flow, fl_node_map, fl_result>>
ld_vars == <<ld_ids, ld_schedule, ld_result>>
pj_vars == <<pj_dimension, pj_coordinates, pj_parsed>>
vars == <<ne_vars, sc_vars, rq_vars, sm_vars, tr_vars, cc_vars, fl_vars, ld_vars, pj_vars>>

\* What an action of one specification leaves alone: the other specifications' variables.
ne_Others == <<sc_vars, rq_vars, sm_vars, tr_vars, cc_vars, fl_vars, ld_vars, pj_vars>>
sc_Others == <<ne_vars, rq_vars, sm_vars, tr_vars, cc_vars, fl_vars, ld_vars, pj_vars>>
rq_Others == <<ne_vars, sc_vars, sm_vars, tr_vars, cc_vars, fl_vars, ld_vars, pj_vars>>
sm_Others == <<ne_vars, sc_vars, rq_vars, tr_vars, cc_vars, fl_vars, ld_vars, pj_vars>>
tr_Others == <<ne_vars, sc_vars, rq_vars, sm_vars, cc_vars, fl_vars, ld_vars, pj_vars>>
cc_Others == <<ne_vars, sc_vars, rq_vars, sm_vars, tr_vars, fl_vars, ld_vars, pj_vars>>
fl_Others == <<ne_vars, sc_vars, rq_vars, sm_vars, tr_vars, cc_vars, ld_vars, pj_vars>>
ld_Others == <<ne_vars, sc_vars, rq_vars, sm_vars, tr_vars, cc_vars, fl_vars, pj_vars>>
pj_Others == <<ne_vars, sc_vars, rq_vars, sm_vars, tr_vars, cc_vars, fl_vars, ld_vars>>

None == <<>>

(***************************************************************************)
(* Bounds of the model.                                                    *)
(***************************************************************************)
MaxIdLen == 3
\* The entries (node times and edge times together) of an engine schedule.
MaxEntries == 2
\* The nodes and the edges of a project.
MaxNodes == 2
MaxEdges == 1

(***************************************************************************)
(* Strings.                                                                *)
(***************************************************************************)
\* '-' , 'a' , 'b'
Alphabet == {45, 97, 98}

\* The separator of normalize_edge_id's f-string and of split("-").
Separator == <<45>>

IdA == <<97>>
IdB == <<98>>

\* Every string over Alphabet of length 0..MaxIdLen.
IdStrings == UNION {[1..n -> Alphabet] : n \in 0..MaxIdLen}

\* Python's str < str: lexicographic by code point, a proper prefix is smaller.
RECURSIVE StrLess(_, _)
StrLess(s, t) ==
    IF t = <<>> THEN FALSE
    ELSE IF s = <<>> THEN TRUE
    ELSE IF Head(s) # Head(t) THEN Head(s) < Head(t)
    ELSE StrLess(Tail(s), Tail(t))

\* The two ids in the order given.
SortedPairUnsorted(source, target) == <<source, target>>

\* sorted([source, target]): a stable sort of a two-element list.
SortedPair(source, target) ==
    IF StrLess(target, source) THEN <<target, source>> ELSE <<source, target>>

\* normalize_edge_id(source, target): a, b = sorted([source, target]); f"{a}-{b}"
normalize_edge_id(source, target) ==
    LET ab == SortedPair(source, target)
    IN  ab[1] \o Separator \o ab[2]

(***************************************************************************)
(* Python values: Optional[T] is <<>> (None) or <<v>>; a dict is a         *)
(* sequence of <<key, value>> pairs with distinct keys, in insertion order.*)
(***************************************************************************)
Some(v) == <<v>>

EmptyDict == <<>>

DictKeys(d) == {d[i][1] : i \in 1..Len(d)}

DictHas(d, k) == k \in DictKeys(d)

\* d[k], for a key of d.
DictGet(d, k) == d[CHOOSE i \in 1..Len(d) : d[i][1] = k][2]

\* d[k] = v: an existing key keeps its place, a new key is appended.
DictSet(d, k, v) ==
    IF DictHas(d, k)
    THEN [i \in 1..Len(d) |-> IF d[i][1] = k THEN <<k, v>> ELSE d[i]]
    ELSE Append(d, <<k, v>>)

\* dict == dict: the same keys with the same values, in any order.
DictEq(d, e) == {d[i] : i \in 1..Len(d)} = {e[i] : i \in 1..Len(e)}

\* str.split("-"): the parts between the separators (always at least one).
RECURSIVE SplitFrom(_, _, _)
SplitFrom(s, part, acc) ==
    IF s = <<>> THEN Append(acc, part)
    ELSE IF <<Head(s)>> = Separator
         THEN SplitFrom(Tail(s), <<>>, Append(acc, part))
         ELSE SplitFrom(Tail(s), Append(part, Head(s)), acc)

Split(s) == SplitFrom(s, <<>>, <<>>)

Min(u, v) == IF u <= v THEN u ELSE v
Max(u, v) == IF u <= v THEN v ELSE u

(***************************************************************************)
(* The schedule translator (converter.py).                                 *)
(***************************************************************************)
\* {v: k for k, v in node_map.items()}
RECURSIVE ReverseMapFrom(_, _, _)
ReverseMapFrom(node_map, i, acc) ==
    IF i > Len(node_map) THEN acc
    ELSE ReverseMapFrom(node_map, i + 1,
                        DictSet(acc, node_map[i][2], node_map[i][1]))

\* A dict that sends every index to the first id of node_map.
ReverseMapFirstId(node_map) ==
    [i \in 1..Len(node_map) |-> <<node_map[i][2], node_map[1][1]>>]

ReverseMap(node_map) == ReverseMapFrom(node_map, 1, EmptyDict)

\* for node_id, time in times.items(): if node_id in map: out[map[node_id]] = time
\* (the loops of schedule_to_dto and of dto_to_schedule over node times).
RECURSIVE NodeTimesFrom(_, _, _, _)
NodeTimesFrom(times, i, map, acc) ==
    IF i > Len(times) THEN acc
    ELSE LET k == times[i][1]
         IN  NodeTimesFrom(times, i + 1, map,
                 IF DictHas(map, k)
                 THEN DictSet(acc, DictGet(map, k), times[i][2])
                 ELSE acc)

NodeTimes(times, map) == NodeTimesFrom(times, 1, map, EmptyDict)

\* schedule_to_dto, the entangle times: an edge with both ends mapped is
\* stored under the canonical id of the two mapped ids.
RECURSIVE EntangleToDtoFrom(_, _, _, _)
EntangleToDtoFrom(entangle_time, i, reverse_map, acc) ==
    IF i > Len(entangle_time) THEN acc
    ELSE LET edge == entangle_time[i][1]
         IN  EntangleToDtoFrom(entangle_time, i + 1, reverse_map,
                 IF DictHas(reverse_map, edge[1]) /\ DictHas(reverse_map, edge[2])
                 THEN DictSet(acc,
                              normalize_edge_id(DictGet(reverse_map, edge[1]),
                                                DictGet(reverse_map, edge[2])),
                              entangle_time[i][2])
                 ELSE acc)

\* [reverse_map[n] for n in nodes if n in reverse_map]
MappedNodes(nodes, reverse_map) ==
    LET f[i \in 0..Len(nodes)] ==
            IF i = 0 THEN <<>>
            ELSE IF DictHas(reverse_map, nodes[i])
                 THEN Append(f[i - 1], DictGet(reverse_map, nodes[i]))
                 ELSE f[i - 1]
    IN  f[Len(nodes)]

\* [normalize_edge_id(reverse_map[e[0]], reverse_map[e[1]]) for e in edges
\*  if e[0] in reverse_map and e[1] in reverse_map]
MappedEdges(edges, reverse_map) ==
    LET f[i \in 0..Len(edges)] ==
            IF i = 0 THEN <<>>
            ELSE IF DictHas(reverse_map, edges[i][1]) /\ DictHas(reverse_map, edges[i][2])
                 THEN Append(f[i - 1],
                             normalize_edge_id(DictGet(reverse_map, edges[i][1]),
                                               DictGet(reverse_map, edges[i][2])))
                 ELSE f[i - 1]
    IN  f[Len(edges)]

\* A timeline that keeps the engine's time labels.
TimelineToDtoLabelled(timeline, reverse_map) ==
    [i \in 1..Len(timeline) |->
        [time          |-> timeline[i].time,
         prepareNodes  |-> MappedNodes(timeline[i].prepare_nodes, reverse_map),
         entangleEdges |-> MappedEdges(timeline[i].entangle_edges, reverse_map),
         measureNodes  |-> MappedNodes(timeline[i].measure_nodes, reverse_map)]]

\* for i, ts in enumerate(timeline): TimeSliceDTO(time=i, ...)
TimelineToDto(timeline, reverse_map) ==
    [i \in 1..Len(timeline) |->
        [time          |-> i - 1,
         prepareNodes  |-> MappedNodes(timeline[i].prepare_nodes, reverse_map),
         entangleEdges |-> MappedEdges(timeline[i].entangle_edges, reverse_map),
         measureNodes  |-> MappedNodes(timeline[i].measure_nodes, reverse_map)]]

schedule_to_dto(prepare_time, measure_time, entangle_time, timeline, reverse_map) ==
    [prepareTime  |-> NodeTimes(prepare_time, reverse_map),
     measureTime  |-> NodeTimes(measure_time, reverse_map),
     entangleTime |-> EntangleToDtoFrom(entangle_time, 1, reverse_map, EmptyDict),
     timeline     |-> TimelineToDto(timeline, reverse_map)]

\* A loader that keeps the order of the two indices as the id lists them.
EntangleFromDtoAsListed(entangleTime, i, node_map, acc) ==
    LET f[n \in 0..Len(entangleTime)] ==
          IF n < i THEN acc
          ELSE LET parts == Split(entangleTime[n][1])
               IN  IF /\ Len(parts) = 2
                      /\ DictHas(node_map, parts[1])
                      /\ DictHas(node_map, parts[2])
                   THEN DictSet(f[n - 1],
                                <<DictGet(node_map, parts[1]), DictGet(node_map, parts[2])>>,
                                entangleTime[n][2])
                   ELSE f[n - 1]
    IN  f[Len(entangleTime)]

\* dto_to_schedule, the entangle times: the edge id is split on "-"; an id
\* that is not two known node ids is dropped; the key is (min, max).
RECURSIVE EntangleFromDtoFrom(_, _, _, _)
EntangleFromDtoFrom(entangleTime, i, node_map, acc) ==
    IF i > Len(entangleTime) THEN acc
    ELSE LET parts == Split(entangleTime[i][1])
         IN  EntangleFromDtoFrom(entangleTime, i + 1, node_map,
                 IF /\ Len(parts) = 2
                    /\ DictHas(node_map, parts[1])
                    /\ DictHas(node_map, parts[2])
                 THEN LET u == DictGet(node_map, parts[1])
                          v == DictGet(node_map, parts[2])
                      IN  DictSet(acc, <<Min(u, v), Max(u, v)>>, entangleTime[i][2])
                 ELSE acc)

\* A loader that also takes preparation times from the timeline's slices.
dto_to_schedule_with_timeline(schedule_dto, node_map) ==
    LET slices == [i \in 1..Len(schedule_dto.timeline) |->
                      [n \in 1..Len(schedule_dto.timeline[i].prepareNodes) |->
                          <<schedule_dto.timeline[i].prepareNodes[n],
                            Some(schedule_dto.timeline[i].time)>>]]
        listed == IF slices = <<>> THEN <<>> ELSE slices[1]
    IN  [prepare_time  |-> NodeTimes(schedule_dto.prepareTime \o listed, node_map),
         measure_time  |-> NodeTimes(schedule_dto.measureTime, node_map),
         entangle_time |-> EntangleFromDtoFrom(schedule_dto.entangleTime, 1, node_map, EmptyDict)]

dto_to_schedule(schedule_dto, node_map) ==
    [prepare_time  |-> NodeTimes(schedule_dto.prepareTime, node_map),
     measure_time  |-> NodeTimes(schedule_dto.measureTime, node_map),
     entangle_time |-> EntangleFromDtoFrom(schedule_dto.entangleTime, 1, node_map, EmptyDict)]

(***************************************************************************)
(* The wire model's validators (dto.py).                                   *)
(***************************************************************************)
Coordinate2D == [x |-> 0, y |-> 0]
Coordinate3D == [x |-> 0, y |-> 0, z |-> 0]

PlannerBasis == [type |-> "planner", plane |-> "XY", angleCoeff |-> 0]

Roles == {"input", "output", "intermediate"}

\* The role table without the row that forbids measBasis on an output node.
validate_role_requirements_lax(self) ==
    IF self.role = "input" THEN
        IF self.measBasis = None THEN "input node requires measBasis"
        ELSE IF self.qubitIndex = None THEN "input node requires qubitIndex"
        ELSE "ok"
    ELSE IF self.role = "output" THEN
        IF self.qubitIndex = None THEN "output node requires qubitIndex"
        ELSE "ok"
    ELSE IF self.role = "intermediate" THEN
        IF self.measBasis = None THEN "intermediate node requires measBasis"
        ELSE IF self.qubitIndex # None THEN "intermediate node must not have qubitIndex"
        ELSE "ok"
    ELSE "ok"

\* GraphNodeDTO.validate_role_requirements: "ok", or the ValueError's message.
validate_role_requirements(self) ==
    IF self.role = "input" THEN
        IF self.measBasis = None THEN "input node requires measBasis"
        ELSE IF self.qubitIndex = None THEN "input node requires qubitIndex"
        ELSE "ok"
    ELSE IF self.role = "output" THEN
        IF self.measBasis # None THEN "output node must not have measBasis"
        ELSE IF self.qubitIndex = None THEN "output node requires qubitIndex"
        ELSE "ok"
    ELSE IF self.role = "intermediate" THEN
        IF self.measBasis = None THEN "intermediate node requires measBasis"
        ELSE IF self.qubitIndex # None THEN "intermediate node must not have qubitIndex"
        ELSE "ok"
    ELSE "ok"

\* An edge id check that takes the two endpoints joined in either order.
validate_edge_id_unordered(self) ==
    IF /\ self.id # self.source \o Separator \o self.target
       /\ self.id # self.target \o Separator \o self.source
    THEN "Edge id must be normalized"
    ELSE "ok"

\* GraphEdgeDTO.validate_edge_id: "ok", or the ValueError's message.
validate_edge_id(self) ==
    LET expected_id == normalize_edge_id(self.source, self.target)
    IN  IF self.id # expected_id THEN "Edge id must be normalized" ELSE "ok"

(***************************************************************************)
(* Exceptions: [type |-> "none"] is no exception.  message is str(e), a    *)
(* string of code points.                                                  *)
(***************************************************************************)
NoExc == [type |-> "none"]

Raised(type, at, message) == [type |-> type, at |-> at, message |-> message]

\* "violation": an engine message that names no node.
MsgViolation == <<118, 105, 111, 108, 97, 116, 105, 111, 110>>

\* "node 0": an engine message that names the node with index 0.
MsgNode0 == <<110, 111, 100, 101, 32, 48>>

\* "engine failure"
MsgFailure == <<101, 110, 103, 105, 110, 101, 32, 102, 97, 105, 108, 117, 114, 101>>

\* "'Coordinate2D' object has no attribute 'z'"
MsgNoAttributeZ ==
    <<39, 67, 111, 111, 114, 100, 105, 110, 97, 116, 101, 50, 68, 39, 32, 111, 98, 106, 101, 99, 116, 32, 104, 97, 115, 32,
      110, 111, 32, 97, 116, 116, 114, 105, 98, 117, 116, 101, 32, 39, 122, 39>>

\* str(KeyError(key)) for a str key: the key's repr.
MsgKeyError(key) == <<39>> \o key \o <<39>>

\* "Schedule computation failed: "
MsgScheduleFailed ==
    <<83, 99, 104, 101, 100, 117, 108, 101, 32, 99,
      111, 109, 112, 117, 116, 97, 116, 105, 111, 110, 32, 102, 97, 105, 108, 101, 100, 58, 32>>

\* "no solution found"
MsgNoSolution == <<110, 111, 32, 115, 111, 108, 117, 116, 105, 111, 110, 32, 102, 111, 117, 110, 100>>

(***************************************************************************)
(* The graph builder (converter.py, dto_to_graphstate).  The engine is the *)
(* log of the calls made on it; a call that raises is logged as raised.    *)
(* failAt is the number of the engine call that raises ValueError (0: no   *)
(* call raises): what the engine accepts is the engine's business.         *)
(***************************************************************************)
NewBuild == [calls |-> <<>>, node_map |-> EmptyDict, exc |-> NoExc]

\* GraphState.add_physical_node returns the next unused index: 0, 1, ...
NextIndex(calls) ==
    Cardinality({i \in 1..Len(calls) :
                    calls[i].op = "add_physical_node" /\ ~calls[i].raised})

EngineCall(st, op, args, failAt) ==
    IF Len(st.calls) + 1 = failAt
    THEN [st EXCEPT !.calls = Append(@, [op |-> op, args |-> args, raised |-> TRUE]),
                    !.exc = Raised("ValueError", "dto_to_graphstate", MsgViolation)]
    ELSE [st EXCEPT !.calls = Append(@, [op |-> op, args |-> args, raised |-> FALSE])]

\* for node_dto in project.nodes: coord_tuple = (coord.x, coord.y, coord.z);
\*     node_map[node_dto.id] = graph.add_physical_node(coordinate=coord_tuple)
RECURSIVE AddNodes(_, _, _, _)
AddNodes(nodes, i, st, failAt) ==
    IF st.exc # NoExc \/ i > Len(nodes) THEN st
    ELSE LET coord == nodes[i].coordinate
         IN  IF "z" \notin DOMAIN coord
             THEN [st EXCEPT !.exc = Raised("AttributeError", "dto_to_graphstate",
                                            MsgNoAttributeZ)]
             ELSE LET node_id == NextIndex(st.calls)
                      st1 == EngineCall(st, "add_physical_node",
                                        <<coord.x, coord.y, coord.z>>, failAt)
                  IN  IF st1.exc # NoExc THEN st1
                      ELSE AddNodes(nodes, i + 1,
                               [st1 EXCEPT !.node_map = DictSet(@, nodes[i].id, node_id)],
                               failAt)

\* A loop that leaves out an edge whose source or target is no node's id.
AddEdgesKnownOnly(edges, i, st, failAt) ==
    LET f[n \in 0..Len(edges)] ==
          IF n < i THEN st
          ELSE IF f[n - 1].exc # NoExc THEN f[n - 1]
          ELSE IF DictHas(st.node_map, edges[n].source) /\ DictHas(st.node_map, edges[n].target)
               THEN EngineCall(f[n - 1], "add_physical_edge",
                               <<DictGet(st.node_map, edges[n].source),
                                 DictGet(st.node_map, edges[n].target)>>, failAt)
               ELSE f[n - 1]
    IN  f[Len(edges)]

\* for edge_dto in project.edges:
\*     graph.add_physical_edge(node_map[edge_dto.source], node_map[edge_dto.target])
RECURSIVE AddEdges(_, _, _, _)
AddEdges(edges, i, st, failAt) ==
    IF st.exc # NoExc \/ i > Len(edges) THEN st
    ELSE IF ~DictHas(st.node_map, edges[i].source)
         THEN [st EXCEPT !.exc = Raised("KeyError", "dto_to_graphstate",
                                        MsgKeyError(edges[i].source))]
         ELSE IF ~DictHas(st.node_map, edges[i].target)
         THEN [st EXCEPT !.exc = Raised("KeyError", "dto_to_graphstate",
                                        MsgKeyError(edges[i].target))]
         ELSE AddEdges(edges, i + 1,
                  EngineCall(st, "add_physical_edge",
                             <<DictGet(st.node_map, edges[i].source),
                               DictGet(st.node_map, edges[i].target)>>, failAt),
                  failAt)

\* for node_dto in project.nodes: register_input / register_output
RECURSIVE RegisterRoles(_, _, _, _)
RegisterRoles(nodes, i, st, failAt) ==
    IF st.exc # NoExc \/ i > Len(nodes) THEN st
    ELSE LET node_id == DictGet(st.node_map, nodes[i].id)
             st1 == IF nodes[i].role = "input" /\ nodes[i].qubitIndex # None
                    THEN EngineCall(st, "register_input",
                                    <<node_id, nodes[i].qubitIndex[1]>>, failAt)
                    ELSE IF nodes[i].role = "output" /\ nodes[i].qubitIndex # None
                    THEN EngineCall(st, "register_output",
                                    <<node_id, nodes[i].qubitIndex[1]>>, failAt)
                    ELSE st
         IN  RegisterRoles(nodes, i + 1, st1, failAt)

\* dto_to_meas_basis: the angle is 2 pi angleCoeff, kept as the coefficient
\* of 2 pi.
dto_to_meas_basis(dto) ==
    IF dto.type = "planner"
    THEN [basis |-> "PlannerMeasBasis", plane |-> dto.plane, two_pi_times |-> dto.angleCoeff]
    ELSE [basis |-> "AxisMeasBasis", axis |-> dto.axis, sign |-> dto.sign]

\* for node_dto in project.nodes: if measBasis is not None: assign_meas_basis
RECURSIVE AssignBases(_, _, _, _)
AssignBases(nodes, i, st, failAt) ==
    IF st.exc # NoExc \/ i > Len(nodes) THEN st
    ELSE AssignBases(nodes, i + 1,
             IF nodes[i].measBasis # None
             THEN EngineCall(st, "assign_meas_basis",
                             <<DictGet(st.node_map, nodes[i].id),
                               dto_to_meas_basis(nodes[i].measBasis[1])>>, failAt)
             ELSE st,
             failAt)

\* A builder that registers inputs and outputs before it adds the edges.
dto_to_graphstate_roles_first(nodes, edges, failAt) ==
    LET s1 == AddNodes(nodes, 1, NewBuild, failAt)
        s2 == RegisterRoles(nodes, 1, s1, failAt)
        s3 == AddEdges(edges, 1, s2, failAt)
    IN  AssignBases(nodes, 1, s3, failAt)

dto_to_graphstate(nodes, edges, failAt) ==
    LET s1 == AddNodes(nodes, 1, NewBuild, failAt)
        s2 == AddEdges(edges, 1, s1, failAt)
        s3 == RegisterRoles(nodes, 1, s2, failAt)
    IN  AssignBases(nodes, 1, s3, failAt)

(***************************************************************************)
(* The flow translator (converter.py, dto_to_flow).  A wire flow is a dict *)
(* from id to list of ids; zflow is that or the sentinel "auto".           *)
(***************************************************************************)
\* {node_map[t] for t in targets if t in node_map}
MappedTargets(targets, node_map) ==
    {DictGet(node_map, targets[j]) :
        j \in {k \in 1..Len(targets) : DictHas(node_map, targets[k])}}

RECURSIVE FlowToIndices(_, _, _, _)
FlowToIndices(flow, i, node_map, acc) ==
    IF i > Len(flow) THEN acc
    ELSE FlowToIndices(flow, i + 1, node_map,
             IF DictHas(node_map, flow[i][1])
             THEN DictSet(acc, DictGet(node_map, flow[i][1]),
                          MappedTargets(flow[i][2], node_map))
             ELSE acc)

\* A translator that answers an empty zflow for "auto".
dto_to_flow_auto_empty(flow, node_map) ==
    [xflow |-> FlowToIndices(flow.xflow, 1, node_map, EmptyDict),
     zflow |-> Some(IF flow.zflow.auto THEN EmptyDict
                    ELSE FlowToIndices(flow.zflow.map, 1, node_map, EmptyDict))]

\* (xflow, zflow), zflow None when the wire zflow is "auto".
dto_to_flow(flow, node_map) ==
    [xflow |-> FlowToIndices(flow.xflow, 1, node_map, EmptyDict),
     zflow |-> IF flow.zflow.auto THEN None
               ELSE Some(FlowToIndices(flow.zflow.map, 1, node_map, EmptyDict))]

(***************************************************************************)
(* The engine's part in a handler, after the graph is built.  What the     *)
(* engine answers is not this repository's code: every call may return,    *)
(* raise ValueError (a reported violation) or raise something else.        *)
(***************************************************************************)
EngineOutcomes(at) ==
    { NoExc,
      Raised("ValueError", at, MsgViolation),
      Raised("RuntimeError", at, MsgFailure) }
    \cup IF at \in {"check_flow", "validate_schedule"}
         THEN {Raised("ValueError", at, MsgNode0)}
         ELSE {}

\* The outcomes of a call that is reached only if nothing was raised before.
OutcomesAfter(prev, at) == IF prev = NoExc THEN EngineOutcomes(at) ELSE {NoExc}

\* A call that is made even after an earlier statement raised.
CallRegardless(st, op, args, outcome) ==
    [st EXCEPT !.calls = Append(@, [op |-> op, args |-> args,
                                    raised |-> outcome # NoExc]),
               !.exc = IF st.exc # NoExc THEN st.exc ELSE outcome]

\* One engine call with the outcome the engine chose; skipped after a raise.
Call(st, op, args, outcome) ==
    IF st.exc # NoExc THEN st
    ELSE [st EXCEPT !.calls = Append(@, [op |-> op, args |-> args,
                                         raised |-> outcome # NoExc]),
                    !.exc = outcome]

\* One engine call that returns a value when it does not raise.
CallReturning(st, op, args, outcome, value) ==
    IF st.exc # NoExc THEN st
    ELSE [st EXCEPT !.calls = Append(@, [op |-> op, args |-> args,
                                         raised |-> outcome # NoExc,
                                         returned |-> IF outcome = NoExc
                                                      THEN Some(value) ELSE None]),
                    !.exc = outcome]

\* graphqomb's odd_neighbors(targets, graph): the nodes adjacent to an odd
\* number of targets, over the edges the engine accepted.
Adjacent(st, u, v) ==
    \E i \in 1..Len(st.calls) :
        /\ st.calls[i].op = "add_physical_edge" /\ ~st.calls[i].raised
        /\ st.calls[i].args \in {<<u, v>>, <<v, u>>}

odd_neighbors(targets, st) ==
    {n \in 0..(NextIndex(st.calls) - 1) :
        Cardinality({t \in targets : Adjacent(st, n, t)}) % 2 = 1}

\* A set of indices as a list, in ascending order.
RECURSIVE SortedSeq(_)
SortedSeq(S) ==
    IF S = {} THEN <<>>
    ELSE LET m == CHOOSE x \in S : \A y \in S : x <= y
         IN  <<m>> \o SortedSeq(S \ {m})

\* A z-flow that repeats the x-flow.
compute_zflow_from_xflow_copy(st, xflow) == xflow

\* compute_zflow_from_xflow: zflow[node] = odd_neighbors(targets, graph)
compute_zflow_from_xflow(st, xflow) ==
    [i \in 1..Len(xflow) |-> <<xflow[i][1], odd_neighbors(xflow[i][2], st)>>]

\* zflow_to_dto: ids for the mapped keys, each with its mapped targets.
RECURSIVE ZflowToDtoFrom(_, _, _, _)
ZflowToDtoFrom(zflow, i, rev, acc) ==
    IF i > Len(zflow) THEN acc
    ELSE ZflowToDtoFrom(zflow, i + 1, rev,
             IF DictHas(rev, zflow[i][1])
             THEN DictSet(acc, DictGet(rev, zflow[i][1]),
                          MappedNodes(SortedSeq(zflow[i][2]), rev))
             ELSE acc)

zflow_to_dto(zflow, rev) == ZflowToDtoFrom(zflow, 1, rev, EmptyDict)

(***************************************************************************)
(* translate_error_message (converter.py): three re.sub passes over the    *)
(* engine's text, computed on code points as Python's re computes them.    *)
(***************************************************************************)
\* \d and \w for the code points of an engine message; \s.
IsDigit(c) == c \in 48..57

IsWord(c) == c \in 48..57 \/ c \in 65..90 \/ c \in 97..122 \/ c = 95

IsSpace(c) == c \in {9, 10, 11, 12, 13, 32}

\* s[i:].startswith(lit)
StartsWith(s, i, lit) ==
    i + Len(lit) - 1 <= Len(s) /\ SubSeq(s, i, i + Len(lit) - 1) = lit

\* The length of the longest run of digits (\d+) and of spaces (\s*) at i.
RECURSIVE DigitsLen(_, _)
DigitsLen(s, i) ==
    IF i <= Len(s) /\ IsDigit(s[i]) THEN 1 + DigitsLen(s, i + 1) ELSE 0

RECURSIVE SpacesLen(_, _)
SpacesLen(s, i) ==
    IF i <= Len(s) /\ IsSpace(s[i]) THEN 1 + SpacesLen(s, i + 1) ELSE 0

\* int(digits)
RECURSIVE ParseInt(_)
ParseInt(digits) ==
    IF digits = <<>> THEN 0
    ELSE 10 * ParseInt(SubSeq(digits, 1, Len(digits) - 1))
         + (digits[Len(digits)] - 48)

\* str(n) for n >= 0
RECURSIVE IntToStr(_)
IntToStr(n) ==
    IF n < 10 THEN <<48 + n>> ELSE IntToStr(n \div 10) \o <<48 + (n % 10)>>

\* reverse_map.get(i, f"?{i}")
GetOrPlaceholder(reverse_map, i) ==
    IF DictHas(reverse_map, i) THEN DictGet(reverse_map, i) ELSE <<63>> \o IntToStr(i)

\* ", ".join(ids)
RECURSIVE JoinCommaSpace(_)
JoinCommaSpace(ids) ==
    IF ids = <<>> THEN <<>>
    ELSE IF Len(ids) = 1 THEN ids[1]
    ELSE ids[1] \o <<44, 32>> \o JoinCommaSpace(Tail(ids))

NoMatch == [ok |-> FALSE]

\* (?:,\s*\d+)*\] from position p on, after the indices read so far.
RECURSIVE ListTail(_, _, _)
ListTail(s, p, indices) ==
    IF p > Len(s) THEN NoMatch
    ELSE IF s[p] = 93 THEN [ok |-> TRUE, end |-> p, indices |-> indices]
    ELSE IF s[p] = 44
    THEN LET q == p + 1 + SpacesLen(s, p + 1)
             d == DigitsLen(s, q)
         IN  IF d = 0 THEN NoMatch
             ELSE ListTail(s, q + d, Append(indices, ParseInt(SubSeq(s, q, q + d - 1))))
    ELSE NoMatch

\* r"\[(\d+(?:,\s*\d+)*)\]" at position i, and replace_index_list's text.
MatchIndexList(s, i, reverse_map) ==
    IF s[i] # 91 THEN NoMatch
    ELSE LET d == DigitsLen(s, i + 1)
         IN  IF d = 0 THEN NoMatch
             ELSE LET m == ListTail(s, i + 1 + d, <<ParseInt(SubSeq(s, i + 1, i + d))>>)
                  IN  IF ~m.ok THEN NoMatch
                      ELSE [ok |-> TRUE, end |-> m.end,
                            out |-> <<91>>
                                    \o JoinCommaSpace(
                                         [k \in 1..Len(m.indices) |->
                                            GetOrPlaceholder(reverse_map, m.indices[k])])
                                    \o <<93>>]

\* \b before a word character at i: the start, or a non-word character before.
WordStart(s, i) == i = 1 \/ ~IsWord(s[i - 1])

\* "node "
LitNode == <<110, 111, 100, 101, 32>>

\* r"\bnode (\d+)" at position i, and replace_single_node's text.
MatchSingleNode(s, i, reverse_map) ==
    IF ~(WordStart(s, i) /\ StartsWith(s, i, LitNode)) THEN NoMatch
    ELSE LET q == i + Len(LitNode)
             d == DigitsLen(s, q)
         IN  IF d = 0 THEN NoMatch
             ELSE [ok |-> TRUE, end |-> q + d - 1,
                   out |-> LitNode
                           \o GetOrPlaceholder(reverse_map, ParseInt(SubSeq(s, q, q + d - 1)))]

\* "Edge" and "edge"
LitEdgeUpper == <<69, 100, 103, 101>>

LitEdgeLower == <<101, 100, 103, 101>>

\* r"\b(Edge|edge) \((\d+), (\d+)\)" at position i, and replace_edge's text.
MatchEdge(s, i, reverse_map) ==
    IF ~(WordStart(s, i) /\ (StartsWith(s, i, LitEdgeUpper) \/ StartsWith(s, i, LitEdgeLower)))
    THEN NoMatch
    ELSE LET prefix == SubSeq(s, i, i + 3)
             q1 == i + 6
             d1 == DigitsLen(s, q1)
             q2 == q1 + d1 + 2
             d2 == DigitsLen(s, q2)
         IN  IF /\ StartsWith(s, i + 4, <<32, 40>>)
                /\ d1 > 0
                /\ StartsWith(s, q1 + d1, <<44, 32>>)
                /\ d2 > 0
                /\ StartsWith(s, q2 + d2, <<41>>)
             THEN [ok |-> TRUE, end |-> q2 + d2,
                   out |-> prefix \o <<32, 40>>
                           \o GetOrPlaceholder(reverse_map, ParseInt(SubSeq(s, q1, q1 + d1 - 1)))
                           \o <<44, 32>>
                           \o GetOrPlaceholder(reverse_map, ParseInt(SubSeq(s, q2, q2 + d2 - 1)))
                           \o <<41>>]
             ELSE NoMatch

MatchAt(pattern, s, i, reverse_map) ==
    IF pattern = "index_list" THEN MatchIndexList(s, i, reverse_map)
    ELSE IF pattern = "single_node" THEN MatchSingleNode(s, i, reverse_map)
    ELSE MatchEdge(s, i, reverse_map)

\* re.sub(pattern, repl, s): the leftmost matches, left to right, not
\* overlapping; what is between them is copied.
RECURSIVE ReSubFrom(_, _, _, _, _)
ReSubFrom(pattern, s, i, reverse_map, acc) ==
    IF i > Len(s) THEN acc
    ELSE LET m == MatchAt(pattern, s, i, reverse_map)
         IN  IF m.ok
             THEN ReSubFrom(pattern, s, m.end + 1, reverse_map, acc \o m.out)
             ELSE ReSubFrom(pattern, s, i + 1, reverse_map, Append(acc, s[i]))

ReSub(pattern, s, reverse_map) == ReSubFrom(pattern, s, 1, reverse_map, <<>>)

\* The three passes, each over the result of the one before.
translate_error_message(message, reverse_map) ==
    ReSub("edge", ReSub("single_node", ReSub("index_list", message, reverse_map),
                        reverse_map), reverse_map)

(***************************************************************************)
(* The responses.                                                          *)
(***************************************************************************)
NoResponse == [kind |-> "none"]

\* FastAPI's answer to a body or query that fails the schema: 422.
RequestValidationError(message) ==
    [kind |-> "RequestValidationError", status_code |-> 422, message |-> message]

\* An exception that leaves the handler: FastAPI's 500.
Unhandled(e) == [kind |-> "unhandled", status_code |-> 500, exc |-> e]

\* The failure reported in a validation body instead of an error response.
HTTPExceptionAsBody(status_code, detail) ==
    [kind |-> "ValidationResponseDTO", valid |-> FALSE,
     errors |-> <<[type |-> "error", message |-> detail]>>]

\* raise HTTPException(status_code=..., detail=...)
HTTPException(status_code, detail) ==
    [kind |-> "HTTPException", status_code |-> status_code, detail |-> detail]

ValidationResponseDTO(errors) ==
    [kind |-> "ValidationResponseDTO", valid |-> Len(errors) = 0, errors |-> errors]

\* A handler whose only except clause is the one for ValueError.
validate_project_response_narrow(e) ==
    IF e = NoExc THEN ValidationResponseDTO(<<>>)
    ELSE IF e.type = "ValueError"
    THEN ValidationResponseDTO(<<[type |-> "validation", message |-> e.message]>>)
    ELSE Unhandled(e)

\* validate_project's except clauses and return (validate.py).
validate_project_response(e) ==
    IF e = NoExc THEN ValidationResponseDTO(<<>>)
    ELSE IF e.type = "ValueError"
    THEN ValidationResponseDTO(<<[type |-> "validation", message |-> e.message]>>)
    ELSE ValidationResponseDTO(<<[type |-> "error", message |-> e.message]>>)

\* validate_schedule's except clauses and return (schedule.py).
validate_schedule_response(e, rev) ==
    IF e = NoExc THEN ValidationResponseDTO(<<>>)
    ELSE IF e.type = "ValueError"
    THEN ValidationResponseDTO(<<[type |-> "schedule_validation",
                                  message |-> translate_error_message(e.message, rev)]>>)
    ELSE ValidationResponseDTO(<<[type |-> "error", message |-> e.message]>>)

(***************************************************************************)
(* SpecEdgeId: normalize_edge_id as a pure function of two ids.            *)
(***************************************************************************)
NoResult == [done |-> FALSE]

ne_Init ==
    /\ ne_source \in IdStrings
    /\ ne_target \in IdStrings
    /\ ne_result = NoResult

\* The edge id of (source, target), of (target, source), and of the two
\* endpoints taken again in the order the sort listed them.
NormalizeEdge ==
    /\ ne_result = NoResult
    /\ ne_result' =
         [done    |-> TRUE,
          id      |-> normalize_edge_id(ne_source, ne_target),
          swapped |-> normalize_edge_id(ne_target, ne_source),
          listed  |-> SortedPair(ne_source, ne_target),
          again   |-> LET ab == SortedPair(ne_source, ne_target)
                      IN  normalize_edge_id(ab[1], ab[2])]
    /\ UNCHANGED <<ne_source, ne_target, ne_Others>>

ne_Next == NormalizeEdge

\* The variables of a specification that is not the one being run.
ne_Idle == ne_source = <<>> /\ ne_target = <<>> /\ ne_result = NoResult

(***************************************************************************)
(* SpecSched: the schedule translator as pure functions.  The project has  *)
(* up to two nodes with distinct ids, one of which may contain the         *)
(* separator; the engine's indices are 0, 1, 2, so that at least one index *)
(* is always unmapped.                                                     *)
(***************************************************************************)
IdAB == IdA \o Separator \o IdB

SchedIdPool == {IdA, IdB, IdAB}

SchedIdLists ==
    {<<>>} \cup {<<x>> : x \in SchedIdPool}
           \cup {p \in SchedIdPool \X SchedIdPool : p[1] # p[2]}

SchedIndices == 0..2

SchedTimes == {None, Some(1)}

\* One entry of the engine's node times, and one of its edge times.
SchedNodeEntries ==
    [kind : {"prepare", "measure"}, key : SchedIndices, time : SchedTimes]

SchedEdgeEntries ==
    [kind : {"entangle"}, key : SchedIndices \X SchedIndices, time : SchedTimes]

SchedNodeSeqs(n) == [1..n -> SchedNodeEntries]

SchedEdgeSeqs(n) == UNION {[1..k -> SchedEdgeEntries] : k \in 0..n}

\* The dict of one kind that a sequence of entries builds.
EntriesDict(es, kind) ==
    LET f[i \in 0..Len(es)] ==
            IF i = 0 THEN EmptyDict
            ELSE IF es[i].kind = kind
                 THEN DictSet(f[i - 1], es[i].key, es[i].time)
                 ELSE f[i - 1]
    IN  f[Len(es)]

\* The engine's time slices: none; one slice; two slices whose labels are
\* not their positions and that name the unmapped index 2.
SchedTimelines ==
    { <<>>,
      <<[time |-> 4, prepare_nodes |-> <<1>>,
         entangle_edges |-> << <<0, 1>> >>, measure_nodes |-> <<0>>]>>,
      <<[time |-> 7, prepare_nodes |-> <<2, 1>>,
         entangle_edges |-> << <<1, 0>>, <<1, 2>> >>, measure_nodes |-> <<>>],
        [time |-> 3, prepare_nodes |-> <<>>,
         entangle_edges |-> <<>>, measure_nodes |-> <<0, 2>>]>> }

\* The forward id map of a project whose ids are distinct: node i of the
\* list has the engine index i - 1.
NodeMapOf(ids) == [i \in 1..Len(ids) |-> <<ids[i], i - 1>>]

NoSchedule == <<>>

sc_Idle ==
    /\ sc_ids = <<>> /\ sc_stage = 0 /\ sc_engine = NoSchedule
    /\ sc_wire = NoSchedule /\ sc_back = NoSchedule /\ sc_wire2 = NoSchedule

\* A project of four nodes 'a', 'b', 'a-b', 'b-b' (indices 0..3) whose edges
\* 0-3 and 1-2 the engine schedules at different times.
IdBB == IdB \o Separator \o IdB

FourIds == <<IdA, IdB, IdAB, IdBB>>

FourIdsSchedule ==
    [prepare_time  |-> EmptyDict,
     measure_time  |-> EmptyDict,
     entangle_time |-> << << <<0, 3>>, None >>, << <<1, 2>>, Some(1) >> >>,
     timeline      |-> <<>>]

sc_Init ==
    /\ \/ /\ sc_ids \in SchedIdLists
          /\ \E n \in 0..MaxEntries, tl \in SchedTimelines :
                \E ns \in SchedNodeSeqs(n), es \in SchedEdgeSeqs(MaxEntries - n) :
                   sc_engine = [prepare_time  |-> EntriesDict(ns, "prepare"),
                                measure_time  |-> EntriesDict(ns, "measure"),
                                entangle_time |-> EntriesDict(es, "entangle"),
                                timeline      |-> tl]
       \/ /\ sc_ids = FourIds
          /\ sc_engine = FourIdsSchedule
    /\ sc_stage = 0
    /\ sc_wire = NoSchedule
    /\ sc_back = NoSchedule
    /\ sc_wire2 = NoSchedule

\* compute_schedule's last step: the engine's schedule is translated to ids.
ScheduleToDto ==
    /\ sc_stage = 0
    /\ sc_wire' = schedule_to_dto(sc_engine.prepare_time, sc_engine.measure_time,
                                  sc_engine.entangle_time, sc_engine.timeline,
                                  ReverseMap(NodeMapOf(sc_ids)))
    /\ sc_stage' = 1
    /\ UNCHANGED <<sc_ids, sc_engine, sc_back, sc_wire2, sc_Others>>

\* validate_schedule's translation of that wire schedule back to indices.
DtoToSchedule ==
    /\ sc_stage = 1
    /\ sc_back' = dto_to_schedule(sc_wire, NodeMapOf(sc_ids))
    /\ sc_stage' = 2
    /\ UNCHANGED <<sc_ids, sc_engine, sc_wire, sc_wire2, sc_Others>>

\* The forward translation once more, of the maps that came back.
ScheduleToDtoAgain ==
    /\ sc_stage = 2
    /\ sc_wire2' = schedule_to_dto(sc_back.prepare_time, sc_back.measure_time,
                                   sc_back.entangle_time, sc_engine.timeline,
                                   ReverseMap(NodeMapOf(sc_ids)))
    /\ sc_stage' = 3
    /\ UNCHANGED <<sc_ids, sc_engine, sc_wire, sc_back, sc_Others>>

sc_Next == ScheduleToDto \/ DtoToSchedule \/ ScheduleToDtoAgain

(***************************************************************************)
(* Spec: requests, one after the other.  FastAPI parses the body into the  *)
(* DTOs (a failure is answered 422 and the handler never runs), then runs  *)
(* the endpoint's handler.  The parts of the body a handler reads once     *)
(* (flow, schedule, strategy) are chosen where they are read.              *)
(***************************************************************************)
Endpoints == {"validate", "compute_zflow", "schedule", "validate_schedule"}

Strategies == {"MINIMIZE_SPACE", "MINIMIZE_TIME"}

\* solve_schedule(config, timeout=60)
SolveTimeout == 60

\* What a caller may send as the timeout query parameter: nothing, or 30.
RequestTimeouts == {None, Some(30)}

PipeIds == {IdA, IdB}

RawNodes ==
    [id : PipeIds, coordinate : {Coordinate2D, Coordinate3D}, role : Roles,
     measBasis : {None, Some(PlannerBasis)}, qubitIndex : {None, Some(0)}]

\* An edge between two ids, its id the two joined in either order or the
\* source alone.
RawEdges ==
    {[id |-> e[3], source |-> e[1], target |-> e[2]] :
        e \in {t \in PipeIds \X PipeIds \X IdStrings :
                  t[3] \in {t[1] \o Separator \o t[2], t[2] \o Separator \o t[1], t[1]}}}

FlowPool ==
    { [xflow |-> EmptyDict, zflow |-> [auto |-> TRUE]],
      [xflow |-> << <<IdA, <<IdB, IdB>>>> >>,
       zflow |-> [auto |-> FALSE, map |-> << <<IdB, <<IdA>>>> >>]] }

\* Schedules a client may submit to /api/validate-schedule.
WireSchedules ==
    { [prepareTime |-> EmptyDict, measureTime |-> EmptyDict,
       entangleTime |-> EmptyDict, timeline |-> <<>>],
      [prepareTime |-> << <<IdB, Some(0)>> >>, measureTime |-> << <<IdA, Some(1)>> >>,
       entangleTime |-> << <<IdA \o Separator \o IdB, Some(0)>> >>, timeline |-> <<>>] }

\* Schedules the engine's solver may return.
EngineSchedules ==
    { [prepare_time |-> EmptyDict, measure_time |-> EmptyDict,
       entangle_time |-> EmptyDict, timeline |-> <<>>],
      [prepare_time |-> << <<1, Some(0)>> >>, measure_time |-> << <<0, Some(1)>> >>,
       entangle_time |-> << << <<0, 1>>, Some(0)>> >>,
       timeline |-> <<[time |-> 0, prepare_nodes |-> <<1>>,
                       entangle_edges |-> << <<0, 1>> >>, measure_nodes |-> <<>>],
                      [time |-> 1, prepare_nodes |-> <<>>,
                       entangle_edges |-> <<>>, measure_nodes |-> <<0>>]>>] }

NoItem == [kind |-> "none"]

rq_Init ==
    /\ rq_pc = "idle"
    /\ rq_endpoint = "none"
    /\ rq_strategy = "none"
    /\ rq_timeout = None
    /\ rq_flow = None
    /\ rq_nodes = <<>>
    /\ rq_edges = <<>>
    /\ rq_parsed = NoItem
    /\ rq_calls = <<>>
    /\ rq_node_map = EmptyDict
    /\ rq_reverse_map = EmptyDict
    /\ rq_exc = NoExc
    /\ rq_response = NoResponse

\* A request arrives at one of the endpoints.
Receive ==
    /\ rq_pc = "idle"
    /\ \E ep \in Endpoints : rq_endpoint' = ep
    /\ rq_pc' = "parse"
    /\ UNCHANGED <<rq_strategy, rq_nodes, rq_edges, rq_parsed, rq_calls, rq_node_map,
                   rq_reverse_map, rq_exc, rq_response, rq_timeout, rq_flow, rq_Others>>

\* The next item of project.nodes is parsed: GraphNodeDTO and its validator.
ParseNode ==
    /\ rq_pc = "parse"
    /\ rq_edges = <<>>
    /\ Len(rq_nodes) < MaxNodes
    /\ \E raw \in RawNodes :
          LET r == validate_role_requirements(raw)
          IN  /\ rq_parsed' = [kind |-> "node", raw |-> raw, ok |-> r = "ok"]
              /\ IF r = "ok"
                 THEN /\ rq_nodes' = Append(rq_nodes, raw)
                      /\ UNCHANGED <<rq_pc, rq_response>>
                 ELSE /\ rq_response' = RequestValidationError(r)
                      /\ rq_pc' = "done"
                      /\ UNCHANGED rq_nodes
    /\ UNCHANGED <<rq_endpoint, rq_strategy, rq_edges, rq_calls, rq_node_map,
                   rq_reverse_map, rq_exc, rq_timeout, rq_flow, rq_Others>>

\* The next item of project.edges is parsed: GraphEdgeDTO and its validator.
ParseEdge ==
    /\ rq_pc = "parse"
    /\ Len(rq_edges) < MaxEdges
    /\ \E raw \in RawEdges :
          LET r == validate_edge_id(raw)
          IN  /\ rq_parsed' = [kind |-> "edge", raw |-> raw, ok |-> r = "ok"]
              /\ IF r = "ok"
                 THEN /\ rq_edges' = Append(rq_edges, raw)
                      /\ UNCHANGED <<rq_pc, rq_response>>
                 ELSE /\ rq_response' = RequestValidationError(r)
                      /\ rq_pc' = "done"
                      /\ UNCHANGED rq_edges
    /\ UNCHANGED <<rq_endpoint, rq_strategy, rq_nodes, rq_calls, rq_node_map,
                   rq_reverse_map, rq_exc, rq_timeout, rq_flow, rq_Others>>

\* A handler that is entered whatever the strategy selector is.
ParseDoneUnchecked ==
    /\ rq_pc = "parse"
    /\ IF rq_endpoint = "schedule"
       THEN \E s \in Strategies \cup {"FASTEST"} : rq_strategy' = s
       ELSE UNCHANGED rq_strategy
    /\ rq_pc' = "handler"
    /\ UNCHANGED <<rq_endpoint, rq_nodes, rq_edges, rq_parsed, rq_calls, rq_node_map,
                   rq_reverse_map, rq_exc, rq_response, rq_timeout, rq_flow, rq_Others>>

\* The body is complete; /api/schedule's strategy must be one of the two.
ParseDone ==
    /\ rq_pc = "parse"
    /\ IF rq_endpoint = "schedule"
       THEN \E s \in Strategies \cup {"FASTEST"} :
               /\ rq_strategy' = s
               /\ IF s \in Strategies
                  THEN rq_pc' = "handler" /\ UNCHANGED rq_response
                  ELSE /\ rq_pc' = "done"
                       /\ rq_response' = RequestValidationError("strategy")
       ELSE rq_pc' = "handler" /\ UNCHANGED <<rq_strategy, rq_response>>
    /\ UNCHANGED <<rq_endpoint, rq_nodes, rq_edges, rq_parsed, rq_calls, rq_node_map,
                   rq_reverse_map, rq_exc, rq_timeout, rq_flow, rq_Others>>

\* Every handler starts with dto_to_graphstate(project).
BuildGraph ==
    /\ rq_pc = "handler"
    /\ \E failAt \in 0..Len(dto_to_graphstate(rq_nodes, rq_edges, 0).calls) :
          LET st == dto_to_graphstate(rq_nodes, rq_edges, failAt)
          IN  /\ rq_calls' = st.calls
              /\ rq_node_map' = st.node_map
              /\ rq_exc' = st.exc
    /\ rq_pc' = "built"
    /\ UNCHANGED <<rq_endpoint, rq_strategy, rq_nodes, rq_edges, rq_parsed,
                   rq_reverse_map, rq_response, rq_timeout, rq_flow, rq_Others>>

Built == [calls |-> rq_calls, node_map |-> rq_node_map, exc |-> rq_exc]

\* validate_project, after the graph: flow, the two checks, the response.
ValidateProject ==
    /\ rq_pc = "built"
    /\ rq_endpoint = "validate"
    /\ IF rq_exc # NoExc
       THEN /\ rq_response' = validate_project_response(rq_exc)
            /\ UNCHANGED <<rq_calls, rq_exc, rq_flow>>
       ELSE \E flow \in FlowPool, o1 \in EngineOutcomes("check_canonical_form") :
            \E o2 \in OutcomesAfter(o1, "check_flow") :
               LET fl == dto_to_flow(flow, rq_node_map)
                   s1 == Call(Built, "check_canonical_form", <<>>, o1)
                   s2 == Call(s1, "check_flow", <<fl.xflow, fl.zflow>>, o2)
               IN  /\ rq_flow' = Some(flow)
                   /\ rq_calls' = s2.calls
                   /\ rq_exc' = s2.exc
                   /\ rq_response' = validate_project_response(s2.exc)
    /\ rq_pc' = "done"
    /\ UNCHANGED <<rq_endpoint, rq_strategy, rq_nodes, rq_edges, rq_parsed,
                   rq_node_map, rq_reverse_map, rq_timeout, rq_Others>>

\* validate_schedule, after the graph: flow, reverse map, the scheduler, the
\* manual schedule, its validation, the response.
ValidateSchedule ==
    /\ rq_pc = "built"
    /\ rq_endpoint = "validate_schedule"
    /\ IF rq_exc # NoExc
       THEN \* reverse_map is still the {} it was initialised to
            /\ rq_response' = validate_schedule_response(rq_exc, EmptyDict)
            /\ UNCHANGED <<rq_calls, rq_exc, rq_reverse_map, rq_flow>>
       ELSE \E flow \in FlowPool, o1 \in EngineOutcomes("Scheduler") :
            \E schedule \in IF o1 = NoExc THEN WireSchedules ELSE {CHOOSE w \in WireSchedules : TRUE},
               o2 \in OutcomesAfter(o1, "manual_schedule") :
            \E o3 \in OutcomesAfter(o2, "validate_schedule") :
               LET fl == dto_to_flow(flow, rq_node_map)
                   rev == ReverseMap(rq_node_map)
                   s1 == Call(Built, "Scheduler", <<fl.xflow, fl.zflow>>, o1)
                   sch == dto_to_schedule(schedule, rq_node_map)
                   s2 == Call(s1, "manual_schedule",
                              <<sch.prepare_time, sch.measure_time, sch.entangle_time>>, o2)
                   s3 == Call(s2, "validate_schedule", <<>>, o3)
               IN  /\ rq_flow' = Some(flow)
                   /\ rq_calls' = s3.calls
                   /\ rq_exc' = s3.exc
                   /\ rq_reverse_map' = rev
                   /\ rq_response' = validate_schedule_response(s3.exc, rev)
    /\ rq_pc' = "done"
    /\ UNCHANGED <<rq_endpoint, rq_strategy, rq_nodes, rq_edges, rq_parsed,
                   rq_node_map, rq_timeout, rq_Others>>

\* compute_schedule, after the graph.  Only the solve is inside a try.
ComputeSchedule ==
    /\ rq_pc = "built"
    /\ rq_endpoint = "schedule"
    /\ IF rq_exc # NoExc
       THEN /\ rq_response' = Unhandled(rq_exc)
            /\ UNCHANGED <<rq_calls, rq_exc, rq_reverse_map, rq_timeout, rq_flow>>
       ELSE \E flow \in FlowPool, o1 \in EngineOutcomes("Scheduler") :
            \E o2 \in OutcomesAfter(o1, "solve_schedule") :
            \E success \in IF o1 = NoExc /\ o2 = NoExc THEN BOOLEAN ELSE {FALSE} :
            \E result \in IF success THEN EngineSchedules
                                     ELSE {CHOOSE r \in EngineSchedules : TRUE} :
            \E timeout \in IF o1 = NoExc THEN RequestTimeouts ELSE {None} :
               LET fl == dto_to_flow(flow, rq_node_map)
                   rev == ReverseMap(rq_node_map)
                   s1 == Call(Built, "Scheduler", <<fl.xflow, fl.zflow>>, o1)
                   s2 == CallReturning(s1, "solve_schedule",
                              <<[strategy |-> rq_strategy, timeout |-> SolveTimeout]>>,
                              o2, success)
               IN  /\ rq_flow' = Some(flow)
                   /\ rq_timeout' = timeout
                   /\ rq_calls' = s2.calls
                   /\ rq_exc' = s2.exc
                   /\ rq_reverse_map' = rev
                   /\ rq_response' =
                        IF s1.exc # NoExc THEN Unhandled(s1.exc)
                        ELSE IF s2.exc # NoExc
                        THEN HTTPException(400, MsgScheduleFailed \o s2.exc.message)
                        ELSE IF ~success
                        THEN HTTPException(400, MsgScheduleFailed \o MsgNoSolution)
                        ELSE [kind |-> "ScheduleResultDTO",
                              body |-> schedule_to_dto(result.prepare_time,
                                           result.measure_time, result.entangle_time,
                                           result.timeline, rev)]
    /\ rq_pc' = "done"
    /\ UNCHANGED <<rq_endpoint, rq_strategy, rq_nodes, rq_edges, rq_parsed,
                   rq_node_map, rq_Others>>

\* compute_zflow, after the graph.  Nothing is inside a try.
ComputeZflow ==
    /\ rq_pc = "built"
    /\ rq_endpoint = "compute_zflow"
    /\ IF rq_exc # NoExc
       THEN /\ rq_response' = Unhandled(rq_exc)
            /\ UNCHANGED <<rq_calls, rq_reverse_map, rq_flow>>
       ELSE \E flow \in FlowPool :
               LET rev == ReverseMap(rq_node_map)
                   xflow == FlowToIndices(flow.xflow, 1, rq_node_map, EmptyDict)
                   zflow == compute_zflow_from_xflow(Built, xflow)
               IN  /\ rq_flow' = Some(flow)
                   /\ rq_reverse_map' = rev
                   /\ rq_calls' = rq_calls \o
                        [i \in 1..Len(xflow) |->
                            [op |-> "odd_neighbors", args |-> <<xflow[i][2]>>,
                             raised |-> FALSE]]
                   /\ rq_response' = [kind |-> "zflow", body |-> zflow_to_dto(zflow, rev)]
    /\ rq_pc' = "done"
    /\ UNCHANGED <<rq_endpoint, rq_strategy, rq_nodes, rq_edges, rq_parsed,
                   rq_node_map, rq_exc, rq_timeout, rq_Others>>

\* The response is sent; nothing of the request is kept for the next one.
Reset ==
    /\ rq_pc = "done"
    /\ rq_pc' = "idle"
    /\ rq_endpoint' = "none"
    /\ rq_strategy' = "none"
    /\ rq_timeout' = None
    /\ rq_flow' = None
    /\ rq_nodes' = <<>>
    /\ rq_edges' = <<>>
    /\ rq_parsed' = NoItem
    /\ rq_calls' = <<>>
    /\ rq_node_map' = EmptyDict
    /\ rq_reverse_map' = EmptyDict
    /\ rq_exc' = NoExc
    /\ rq_response' = NoResponse
    /\ UNCHANGED rq_Others

rq_Idle == rq_Init

rq_Next ==
    \/ Receive \/ ParseNode \/ ParseEdge \/ ParseDone \/ BuildGraph
    \/ ValidateProject \/ ValidateSchedule \/ ComputeSchedule \/ ComputeZflow
    \/ Reset

(***************************************************************************)
(* SpecSchema: the shape of the request body models (dto.py).  A payload   *)
(* is the set of field names it carries; a model declares its fields,      *)
(* which of them have no default, and, in model_config, what happens to a  *)
(* field it does not declare.                                              *)
(***************************************************************************)
\* pydantic's behaviour for a model without model_config: extra = "ignore".
PydanticDefaultExtra == "ignore"

ModelTable ==
    [ Coordinate2D |->
        [declared |-> {"x", "y"}, required |-> {"x", "y"}, extra |-> "forbid"],
      Coordinate3D |->
        [declared |-> {"x", "y", "z"}, required |-> {"x", "y", "z"}, extra |-> "forbid"],
      PlannerMeasBasisDTO |->
        [declared |-> {"type", "plane", "angleCoeff"},
         required |-> {"type", "plane", "angleCoeff"}, extra |-> "forbid"],
      AxisMeasBasisDTO |->
        [declared |-> {"type", "axis", "sign"},
         required |-> {"type", "axis", "sign"}, extra |-> "forbid"],
      GraphNodeDTO |->
        [declared |-> {"id", "coordinate", "role", "measBasis", "qubitIndex"},
         required |-> {"id", "coordinate", "role"}, extra |-> "forbid"],
      GraphEdgeDTO |->
        [declared |-> {"id", "source", "target"},
         required |-> {"id", "source", "target"}, extra |-> "forbid"],
      FlowDefinitionDTO |->
        [declared |-> {"xflow", "zflow"}, required |-> {"xflow", "zflow"},
         extra |-> "forbid"],
      ProjectPayloadDTO |->
        [declared |-> {"name", "dimension", "nodes", "edges", "flow"},
         required |-> {"name", "dimension", "nodes", "edges", "flow"},
         extra |-> "forbid"],
      TimeSliceDTO |->
        [declared |-> {"time", "prepareNodes", "entangleEdges", "measureNodes"},
         required |-> {"time", "prepareNodes", "entangleEdges", "measureNodes"},
         extra |-> PydanticDefaultExtra],
      ScheduleResultDTO |->
        [declared |-> {"prepareTime", "measureTime", "entangleTime", "timeline"},
         required |-> {"prepareTime", "measureTime", "entangleTime", "timeline"},
         extra |-> PydanticDefaultExtra] ]

\* The models a request body is made of.
RequestModels == DOMAIN ModelTable

\* A field name that no model declares.
UndeclaredFields == {"comment"}

\* Model.model_validate(payload), as far as the field names go.
model_validate(model, fields) ==
    LET m == ModelTable[model]
    IN  IF m.extra = "forbid" /\ fields \ m.declared # {} THEN "extra_forbidden"
        ELSE IF m.required \ fields # {} THEN "missing"
        ELSE "ok"

sm_Idle == sm_model = "none" /\ sm_fields = {} /\ sm_result = "none"

sm_Init ==
    /\ sm_model \in RequestModels
    /\ sm_fields \in SUBSET (ModelTable[sm_model].declared \cup UndeclaredFields)
    /\ sm_result = "none"

\* The payload is parsed into the model.
ModelValidate ==
    /\ sm_result = "none"
    /\ sm_result' = model_validate(sm_model, sm_fields)
    /\ UNCHANGED <<sm_model, sm_fields, sm_Others>>

sm_Next == ModelValidate

(***************************************************************************)
(* SpecTranslate: translate_error_message as a pure function of an engine  *)
(* text and a reverse map.  The text is made of pieces, one space between  *)
(* two pieces: plain words, 'node <int>', a bracketed list of integers,    *)
(* and 'Edge (<int>, <int>)' or 'edge (<int>, <int>)'.                     *)
(***************************************************************************)
MaxPieces == 3

\* "node 1": an id that reads like a piece of engine text.
IdNode1 == <<110, 111, 100, 101, 32, 49>>

\* The reverse maps: none, one node, two nodes, two nodes one of which has
\* the id 'node 1'.  The indices 2 and 10 are never mapped.
TranslateMaps ==
    { EmptyDict,
      << <<0, IdA>> >>,
      << <<0, IdA>>, <<1, IdB>> >>,
      << <<0, IdNode1>>, <<1, IdB>> >> }

Pieces ==
    { [kind |-> "text", text |-> <<120>>],
      [kind |-> "text", text |-> <<48>>],
      [kind |-> "node", index |-> 0],
      [kind |-> "node", index |-> 1],
      [kind |-> "node", index |-> 10],
      [kind |-> "list", indices |-> <<0>>, sep |-> <<44, 32>>],
      [kind |-> "list", indices |-> <<1, 0>>, sep |-> <<44, 32>>],
      [kind |-> "list", indices |-> <<0, 2>>, sep |-> <<44>>],
      [kind |-> "edge", prefix |-> LitEdgeUpper, u |-> 0, v |-> 1],
      [kind |-> "edge", prefix |-> LitEdgeLower, u |-> 1, v |-> 2] }

PieceSeqs == UNION {[1..n -> Pieces] : n \in 0..MaxPieces}

\* parts[0] + sep + parts[1] + ...
RECURSIVE Join(_, _)
Join(parts, sep) ==
    IF parts = <<>> THEN <<>>
    ELSE IF Len(parts) = 1 THEN parts[1]
    ELSE parts[1] \o sep \o Join(Tail(parts), sep)

\* The engine's text for one piece.
PieceText(piece) ==
    IF piece.kind = "text" THEN piece.text
    ELSE IF piece.kind = "node" THEN LitNode \o IntToStr(piece.index)
    ELSE IF piece.kind = "list"
    THEN <<91>> \o Join([k \in 1..Len(piece.indices) |-> IntToStr(piece.indices[k])],
                        piece.sep) \o <<93>>
    ELSE piece.prefix \o <<32, 40>> \o IntToStr(piece.u) \o <<44, 32>>
         \o IntToStr(piece.v) \o <<41>>

EngineText(pieces) == Join([k \in 1..Len(pieces) |-> PieceText(pieces[k])], <<32>>)

tr_Idle == tr_pieces = <<>> /\ tr_map = EmptyDict /\ tr_result = NoResult

tr_Init ==
    /\ tr_pieces \in PieceSeqs
    /\ tr_map \in TranslateMaps
    /\ tr_result = NoResult

\* validate_schedule's except clause: the engine's text is translated.
Translate ==
    /\ tr_result = NoResult
    /\ tr_result' = [done |-> TRUE,
                     text |-> translate_error_message(EngineText(tr_pieces), tr_map)]
    /\ UNCHANGED <<tr_pieces, tr_map, tr_Others>>

tr_Next == Translate

(***************************************************************************)
(* SpecConcurrent: requests to /api/validate-schedule handled at the same  *)
(* time.  The handlers are plain functions, which FastAPI runs on worker   *)
(* threads; every step below may be followed by a step of another request. *)
(* Each request has its own graph, node_map and reverse_map: they are      *)
(* locals of dto_to_graphstate and of the handler.                         *)
(***************************************************************************)
MaxRequests == 2

Requests == 1..MaxRequests

\* The node ids of a request's project, in list order.
ConcurrentNodeLists == {<<>>, <<IdA>>, <<IdA, IdB>>, <<IdB, IdA>>, <<IdA, IdA>>}

\* What the engine's validate_schedule does for a request: returns or
\* reports a violation at node 0.
ConcurrentOutcomes == {NoExc, Raised("ValueError", "validate_schedule", MsgNode0)}

\* An input node with the id given.
InputNode(id) ==
    [id |-> id, coordinate |-> Coordinate3D, role |-> "input",
     measBasis |-> Some(PlannerBasis), qubitIndex |-> Some(0)]

ProjectNodes(ids) == [i \in 1..Len(ids) |-> InputNode(ids[i])]

\* The calls made so far on every graph of the process.
RECURSIVE CallsOfAll(_)
CallsOfAll(n) == IF n = 0 THEN <<>> ELSE CallsOfAll(n - 1) \o cc_calls[n]

\* One graph for the whole process.
GraphOfShared(r) == CallsOfAll(MaxRequests)

\* graph = GraphState(): the graph of request r is the one r created.
GraphOf(r) == cc_calls[r]

cc_Idle ==
    /\ cc_request = <<>> /\ cc_pc = <<>> /\ cc_calls = <<>> /\ cc_node_map = <<>>
    /\ cc_reverse_map = <<>> /\ cc_response = <<>> /\ cc_overlapped = FALSE

cc_Init ==
    /\ cc_request \in [Requests -> [ids : ConcurrentNodeLists, outcome : ConcurrentOutcomes]]
    /\ cc_pc = [r \in Requests |-> "nodes"]
    /\ cc_calls = [r \in Requests |-> <<>>]
    /\ cc_node_map = [r \in Requests |-> EmptyDict]
    /\ cc_reverse_map = [r \in Requests |-> EmptyDict]
    /\ cc_response = [r \in Requests |-> NoResponse]
    /\ cc_overlapped = FALSE

\* dto_to_graphstate's first loop, one node: the node is added to the
\* request's graph and its index is stored under its id.
AddNode(r) ==
    /\ cc_pc[r] = "nodes"
    /\ Len(cc_calls[r]) < Len(cc_request[r].ids)
    /\ LET node == InputNode(cc_request[r].ids[Len(cc_calls[r]) + 1])
           coord == node.coordinate
           node_id == NextIndex(GraphOf(r))
       IN  /\ cc_calls' = [cc_calls EXCEPT ![r] =
                             Append(@, [op |-> "add_physical_node",
                                        args |-> <<coord.x, coord.y, coord.z>>,
                                        raised |-> FALSE])]
           /\ cc_node_map' = [cc_node_map EXCEPT ![r] = DictSet(@, node.id, node_id)]
    /\ cc_overlapped' =
          (cc_overlapped \/ \E q \in Requests \ {r} :
                               cc_pc[q] = "nodes" /\ cc_calls[q] # <<>>)
    /\ UNCHANGED <<cc_request, cc_pc, cc_reverse_map, cc_response, cc_Others>>

\* The rest of dto_to_graphstate (inputs, outputs, bases) and the handler's
\* reverse map.
FinishBuild(r) ==
    /\ cc_pc[r] = "nodes"
    /\ Len(cc_calls[r]) = Len(cc_request[r].ids)
    /\ LET nodes == ProjectNodes(cc_request[r].ids)
           st == [calls |-> GraphOf(r), node_map |-> cc_node_map[r], exc |-> NoExc]
           s3 == RegisterRoles(nodes, 1, st, 0)
           s4 == AssignBases(nodes, 1, s3, 0)
       IN  /\ cc_calls' = [cc_calls EXCEPT ![r] = s4.calls]
           /\ cc_reverse_map' = [cc_reverse_map EXCEPT ![r] = ReverseMap(s4.node_map)]
    /\ cc_pc' = [cc_pc EXCEPT ![r] = "respond"]
    /\ UNCHANGED <<cc_request, cc_node_map, cc_response, cc_overlapped, cc_Others>>

\* The engine answers and the handler returns its ValidationResponseDTO.
Respond(r) ==
    /\ cc_pc[r] = "respond"
    /\ cc_response' = [cc_response EXCEPT ![r] =
                          validate_schedule_response(cc_request[r].outcome,
                                                     cc_reverse_map[r])]
    /\ cc_pc' = [cc_pc EXCEPT ![r] = "done"]
    /\ UNCHANGED <<cc_request, cc_calls, cc_node_map, cc_reverse_map, cc_overlapped,
                   cc_Others>>

AddNodeStep == \E r \in Requests : AddNode(r)

FinishBuildStep == \E r \in Requests : FinishBuild(r)

RespondStep == \E r \in Requests : Respond(r)

cc_Next == AddNodeStep \/ FinishBuildStep \/ RespondStep

(***************************************************************************)
(* SpecFlow: dto_to_flow applied to wire flows whose keys and targets may  *)
(* name ids the project does not have, and may repeat a target.            *)
(***************************************************************************)
MaxFlowEntries == 2

\* "aa": an id no node of the project has.
IdAbsent == <<97, 97>>

FlowIds == {IdA, IdB, IdAbsent}

FlowTargetLists ==
    {<<>>, <<IdA>>, <<IdB>>, <<IdA, IdA>>, <<IdA, IdB>>, <<IdAbsent>>, <<IdAbsent, IdB>>}

\* dict[str, list[str]]: the keys of a dict are distinct.
WireFlows(n) ==
    {f \in UNION {[1..k -> FlowIds \X FlowTargetLists] : k \in 0..n} :
        \A i, j \in 1..Len(f) : f[i][1] = f[j][1] => i = j}

\* dict[str, list[str]] | Literal["auto"]
WireZflows == {[auto |-> TRUE]} \cup {[auto |-> FALSE, map |-> f] : f \in WireFlows(1)}

\* The node_map of a project whose nodes have the ids given, in list order.
FlowNodeMaps == {NodeMapOf(ids) : ids \in {<<IdA>>, <<IdA, IdB>>, <<IdB, IdA>>}}

fl_Idle == fl_flow = <<>> /\ fl_node_map = <<>> /\ fl_result = <<>>

fl_Init ==
    /\ fl_flow \in [xflow : WireFlows(MaxFlowEntries), zflow : WireZflows]
    /\ fl_node_map \in FlowNodeMaps
    /\ fl_result = None

DtoToFlow ==
    /\ fl_result = None
    /\ fl_result' = Some(dto_to_flow(fl_flow, fl_node_map))
    /\ UNCHANGED <<fl_flow, fl_node_map, fl_Others>>

fl_Next == DtoToFlow

(***************************************************************************)
(* SpecLoad: dto_to_schedule applied to schedules a client wrote: edge     *)
(* keys in either order, with unknown ids, with more or fewer than two     *)
(* parts, and node times of unknown ids.                                   *)
(***************************************************************************)
\* 'a-b', 'b-a', 'a-a', 'a', 'a-aa', 'a-a-b'
WireEdgeKeys ==
    { IdA \o Separator \o IdB, IdB \o Separator \o IdA, IdA \o Separator \o IdA, IdA,
      IdA \o Separator \o IdAbsent, IdA \o Separator \o IdAB }

\* dict[str, int | None] with distinct keys, at most n entries.
WireTimes(keys, n) ==
    {d \in UNION {[1..k -> keys \X SchedTimes] : k \in 0..n} :
        \A i, j \in 1..Len(d) : d[i][1] = d[j][1] => i = j}

\* list[TimeSliceDTO]: no slice, or one slice that prepares 'b' at time 5.
WireTimelines ==
    { <<>>,
      <<[time |-> 5, prepareNodes |-> <<IdB>>, entangleEdges |-> <<>>,
         measureNodes |-> <<IdA>>]>> }

LoadIdLists == {<<IdA>>, <<IdA, IdB>>, <<IdB, IdA>>, <<IdAB, IdA>>}

ld_Idle == ld_ids = <<>> /\ ld_schedule = NoSchedule /\ ld_result = NoSchedule

ld_Init ==
    /\ ld_ids \in LoadIdLists
    /\ \E p \in WireTimes({IdA, IdAbsent}, 1), m \in WireTimes({IdB}, 1),
          e \in WireTimes(WireEdgeKeys, MaxEntries), tl \in WireTimelines :
          ld_schedule = [prepareTime |-> p, measureTime |-> m, entangleTime |-> e,
                         timeline |-> tl]
    /\ ld_result = NoSchedule

\* validate_schedule: prepare_time, measure_time, entangle_time =
\*     dto_to_schedule(schedule, node_map)
LoadSchedule ==
    /\ ld_result = NoSchedule
    /\ ld_result' = dto_to_schedule(ld_schedule, NodeMapOf(ld_ids))
    /\ UNCHANGED <<ld_ids, ld_schedule, ld_Others>>

ld_Next == LoadSchedule

(***************************************************************************)
(* SpecProject: parsing a project's dimension and the coordinates of its   *)
(* nodes (dto.py).  A coordinate payload is a JSON object: a function from *)
(* the field names it carries to numbers.  The other fields of the nodes   *)
(* and of the project are taken to be valid.                               *)
(***************************************************************************)
MaxCoordinates == 2

\* "w": a field no coordinate model declares.
CoordinateFields == {"x", "y", "z", "w"}

CoordinatePayloads == UNION {[S -> {1}] : S \in SUBSET CoordinateFields}

\* dimension: Literal[2, 3]; a payload may say anything.
DimensionLiterals == {2, 3}

DimensionPayloads == {2, 3, 4}

\* A union that has the 2D model only.
CoordinateDTO2D == <<"Coordinate2D">>

\* CoordinateDTO = Annotated[Coordinate3D | Coordinate2D, Field()]
CoordinateDTO == <<"Coordinate3D", "Coordinate2D">>

\* Validation against a union: the first member that accepts the payload.
validate_union(members, payload) ==
    LET accepting == {i \in 1..Len(members) :
                         model_validate(members[i], DOMAIN payload) = "ok"}
    IN  IF accepting = {} THEN [variant |-> "rejected"]
        ELSE LET m == members[CHOOSE i \in accepting : \A j \in accepting : i <= j]
             IN  [variant |-> m,
                  value |-> [f \in ModelTable[m].declared |-> payload[f]]]

\* ProjectPayloadDTO.model_validate, as far as dimension and coordinates go.
validate_project_payload(dimension, coordinates) ==
    LET parsed == [i \in 1..Len(coordinates) |-> validate_union(CoordinateDTO, coordinates[i])]
    IN  [ok |-> /\ dimension \in DimensionLiterals
                /\ \A i \in 1..Len(parsed) : parsed[i].variant # "rejected",
         dimension |-> dimension,
         coordinates |-> parsed]

pj_Idle == pj_dimension = 0 /\ pj_coordinates = <<>> /\ pj_parsed = <<>>

pj_Init ==
    /\ pj_dimension \in DimensionPayloads
    /\ pj_coordinates \in UNION {[1..n -> CoordinatePayloads] : n \in 0..MaxCoordinates}
    /\ pj_parsed = None

ParseProject ==
    /\ pj_parsed = None
    /\ pj_parsed' = Some(validate_project_payload(pj_dimension, pj_coordinates))
    /\ UNCHANGED <<pj_dimension, pj_coordinates, pj_Others>>

pj_Next == ParseProject

(***************************************************************************)
(* The specifications.                                                     *)
(***************************************************************************)
Init == rq_Init /\ ne_Idle /\ sc_Idle /\ sm_Idle /\ tr_Idle /\ cc_Idle /\ fl_Idle /\ ld_Idle /\ pj_Idle

Spec == Init /\ [][rq_Next]_vars

InitEdgeId == ne_Init /\ sc_Idle /\ rq_Idle /\ sm_Idle /\ tr_Idle /\ cc_Idle /\ fl_Idle /\ ld_Idle /\ pj_Idle

SpecEdgeId == InitEdgeId /\ [][ne_Next]_vars

InitSched == sc_Init /\ ne_Idle /\ rq_Idle /\ sm_Idle /\ tr_Idle /\ cc_Idle /\ fl_Idle /\ ld_Idle /\ pj_Idle

SpecSched == InitSched /\ [][sc_Next]_vars

InitSchema == sm_Init /\ ne_Idle /\ sc_Idle /\ rq_Idle /\ tr_Idle /\ cc_Idle /\ fl_Idle /\ ld_Idle /\ pj_Idle

SpecSchema == InitSchema /\ [][sm_Next]_vars

InitTranslate == tr_Init /\ ne_Idle /\ sc_Idle /\ rq_Idle /\ sm_Idle /\ cc_Idle /\ fl_Idle /\ ld_Idle /\ pj_Idle

SpecTranslate == InitTranslate /\ [][tr_Next]_vars

InitConcurrent == cc_Init /\ ne_Idle /\ sc_Idle /\ rq_Idle /\ sm_Idle /\ tr_Idle /\ fl_Idle /\ ld_Idle /\ pj_Idle

SpecConcurrent == InitConcurrent /\ [][cc_Next]_vars

InitFlow == fl_Init /\ ne_Idle /\ sc_Idle /\ rq_Idle /\ sm_Idle /\ tr_Idle /\ cc_Idle /\ ld_Idle /\ pj_Idle

SpecFlow == InitFlow /\ [][fl_Next]_vars

InitLoad == ld_Init /\ ne_Idle /\ sc_Idle /\ rq_Idle /\ sm_Idle /\ tr_Idle /\ cc_Idle /\ fl_Idle /\ pj_Idle

SpecLoad == InitLoad /\ [][ld_Next]_vars

InitProject == pj_Init /\ ne_Idle /\ sc_Idle /\ rq_Idle /\ sm_Idle /\ tr_Idle /\ cc_Idle /\ fl_Idle /\ ld_Idle

SpecProject == InitProject /\ [][pj_Next]_vars

(***************************************************************************)
(* C8: a wire schedule produced by schedule_to_dto, translated back by     *)
(* dto_to_schedule and forward again over the same id map, is reproduced   *)
(* identically: the three time maps and the timeline.                      *)
(***************************************************************************)
C8_WireRoundTripFixedPoint ==
    sc_stage = 3 =>
        /\ DictEq(sc_wire2.prepareTime, sc_wire.prepareTime)
        /\ DictEq(sc_wire2.measureTime, sc_wire.measureTime)
        /\ DictEq(sc_wire2.entangleTime, sc_wire.entangleTime)
        /\ sc_wire2.timeline = sc_wire.timeline

(***************************************************************************)
(* C9: for an engine schedule whose node keys are mapped indices and whose *)
(* edge keys are (min, max) pairs of mapped indices, schedule_to_dto       *)
(* followed by dto_to_schedule returns the three maps unchanged.           *)
(***************************************************************************)
SchedKeysMapped ==
    /\ \A k \in DictKeys(sc_engine.prepare_time) \cup DictKeys(sc_engine.measure_time) :
          k < Len(sc_ids)
    /\ \A e \in DictKeys(sc_engine.entangle_time) :
          e[1] <= e[2] /\ e[2] < Len(sc_ids)

C9_EngineRoundTripIdentity ==
    (sc_stage >= 2 /\ SchedKeysMapped) =>
        /\ DictEq(sc_back.prepare_time, sc_engine.prepare_time)
        /\ DictEq(sc_back.measure_time, sc_engine.measure_time)
        /\ DictEq(sc_back.entangle_time, sc_engine.entangle_time)

(***************************************************************************)
(* C5: normalize_edge_id(a, b) = normalize_edge_id(b, a); normalizing the  *)
(* two endpoints again in the order the result lists them gives the same   *)
(* edge id; and for a = b the result is a, the separator, a.               *)
(***************************************************************************)
C5_NormalizeSymmetricIdempotent ==
    ne_result.done =>
        /\ ne_result.id = ne_result.swapped
        /\ ne_result.again = ne_result.id
        /\ ne_result.id = ne_result.listed[1] \o <<45>> \o ne_result.listed[2]
        /\ {ne_result.listed[1], ne_result.listed[2]} = {ne_source, ne_target}
        /\ (ne_source = ne_target =>
                ne_result.id = ne_source \o <<45>> \o ne_source)

\* An edge whose endpoints are given in descending order has been normalized.
C5_Witness ==
    /\ ne_result.done
    /\ StrLess(ne_target, ne_source)
    /\ ne_result.id = ne_target \o <<45>> \o ne_source

(***************************************************************************)
(* C6: the canonical edge id is an identity key: two pairs of ids have the *)
(* same edge id if and only if they are the same unordered pair, also when *)
(* ids contain the separator.                                              *)
(***************************************************************************)
C6_EdgeIdIsIdentityKey ==
    ne_result.done =>
        \A c, d \in IdStrings :
            (ne_result.id = normalize_edge_id(c, d))
                <=> ({c, d} = {ne_source, ne_target})

(***************************************************************************)
(* What the claims about a request speak of.                               *)
(***************************************************************************)
\* The handler has run dto_to_graphstate for this request.
GraphBuilt ==
    \/ rq_pc = "built"
    \/ rq_pc = "done" /\ rq_response.kind # "RequestValidationError"

\* dto_to_graphstate returned.
GraphReturned == GraphBuilt /\ (rq_exc = NoExc \/ rq_exc.at # "dto_to_graphstate")

\* The handler has built its reverse map.
ReverseMapBuilt ==
    GraphReturned /\ rq_pc = "done" /\ rq_endpoint # "validate"

DistinctIds ==
    \A i, j \in 1..Len(rq_nodes) : i # j => rq_nodes[i].id # rq_nodes[j].id

\* The three legal rows: (role, measBasis present, qubitIndex present).
LegalRows ==
    { <<"input", TRUE, TRUE>>, <<"output", FALSE, TRUE>>,
      <<"intermediate", TRUE, FALSE>> }

RowOf(raw) == <<raw.role, raw.measBasis # None, raw.qubitIndex # None>>

(***************************************************************************)
(* C1: a GraphNode is constructed if and only if its (role, measBasis      *)
(* present, qubitIndex present) triple is one of the three legal rows;     *)
(* every other triple fails construction with a validation error.          *)
(***************************************************************************)
C1_RoleTable ==
    rq_parsed.kind = "node" =>
        /\ rq_parsed.ok <=> RowOf(rq_parsed.raw) \in LegalRows
        /\ ~rq_parsed.ok =>
              /\ rq_pc = "done"
              /\ rq_response.kind = "RequestValidationError"
              /\ rq_response.status_code = 422

\* An output node that carries a measBasis has been refused.
C1_Witness ==
    /\ rq_parsed.kind = "node"
    /\ RowOf(rq_parsed.raw) = <<"output", TRUE, TRUE>>
    /\ ~rq_parsed.ok
    /\ rq_response.kind = "RequestValidationError"

(***************************************************************************)
(* C2: a project in which two nodes carry the same id is rejected before   *)
(* the id map is built: no id map, engine graph or translated result is    *)
(* ever produced for it.                                                   *)
(***************************************************************************)
C2_DuplicateIdsRejected ==
    ~DistinctIds =>
        /\ rq_node_map = EmptyDict
        /\ rq_calls = <<>>
        /\ rq_response.kind \in {"none", "RequestValidationError"}

(***************************************************************************)
(* C3: for a project with pairwise distinct node ids, the forward map that *)
(* dto_to_graphstate returns is injective with exactly one entry per node, *)
(* and the reverse map satisfies reverse[forward[id]] = id for every node  *)
(* id and forward[reverse[i]] = i for every assigned index i.              *)
(***************************************************************************)
C3_IdMapBijective ==
    /\ (GraphReturned /\ DistinctIds) =>
          /\ Len(rq_node_map) = Len(rq_nodes)
          /\ DictKeys(rq_node_map) = {rq_nodes[i].id : i \in 1..Len(rq_nodes)}
          /\ \A i, j \in 1..Len(rq_node_map) :
                i # j => rq_node_map[i][2] # rq_node_map[j][2]
    /\ (ReverseMapBuilt /\ DistinctIds) =>
          /\ \A i \in 1..Len(rq_nodes) :
                LET id == rq_nodes[i].id
                IN  /\ DictHas(rq_node_map, id)
                    /\ DictHas(rq_reverse_map, DictGet(rq_node_map, id))
                    /\ DictGet(rq_reverse_map, DictGet(rq_node_map, id)) = id
          /\ \A k \in 1..Len(rq_node_map) :
                LET i == rq_node_map[k][2]
                IN  /\ DictHas(rq_reverse_map, i)
                    /\ DictHas(rq_node_map, DictGet(rq_reverse_map, i))
                    /\ DictGet(rq_node_map, DictGet(rq_reverse_map, i)) = i
          /\ DictKeys(rq_reverse_map) = {rq_node_map[k][2] : k \in 1..Len(rq_node_map)}

\* /api/schedule has answered for a project of two nodes with distinct ids.
C3_Witness ==
    /\ rq_pc = "done"
    /\ rq_endpoint = "schedule"
    /\ rq_response.kind = "ScheduleResultDTO"
    /\ Len(rq_nodes) = 2
    /\ DistinctIds
    /\ Len(rq_reverse_map) = 2

(***************************************************************************)
(* C4: a GraphEdge is accepted if and only if its id is                    *)
(* normalize_edge_id(source, target), whichever endpoint is given as       *)
(* source; an id that joins the two endpoints in non-sorted order is       *)
(* rejected at parse time, before any handler or engine call runs.         *)
(***************************************************************************)
C4_EdgeIdNormalized ==
    rq_parsed.kind = "edge" =>
        LET raw == rq_parsed.raw
            lo  == IF StrLess(raw.target, raw.source) THEN raw.target ELSE raw.source
            hi  == IF StrLess(raw.target, raw.source) THEN raw.source ELSE raw.target
        IN  /\ rq_parsed.ok <=> raw.id = normalize_edge_id(raw.source, raw.target)
            /\ rq_parsed.ok <=> raw.id = normalize_edge_id(raw.target, raw.source)
            /\ (lo # hi /\ raw.id = hi \o <<45>> \o lo) => ~rq_parsed.ok
            /\ ~rq_parsed.ok =>
                  /\ rq_pc = "done"
                  /\ rq_response.kind = "RequestValidationError"
                  /\ rq_response.status_code = 422
                  /\ rq_calls = <<>>
                  /\ rq_node_map = EmptyDict
                  /\ rq_exc = NoExc

\* The edge 'b-a' from source 'b' to target 'a' has been refused.
C4_Witness ==
    /\ rq_parsed.kind = "edge"
    /\ rq_parsed.raw = [id |-> <<98, 45, 97>>, source |-> <<98>>, target |-> <<97>>]
    /\ ~rq_parsed.ok
    /\ rq_response.kind = "RequestValidationError"
    /\ rq_calls = <<>>

(***************************************************************************)
(* C7: dto_to_graphstate accepts a node whose coordinate is 2D and adds it *)
(* with a three-component coordinate; graph building never fails because a *)
(* coordinate is 2D, and a project with 2D coordinates that the engine     *)
(* accepts validates with valid = true and no errors.                      *)
(***************************************************************************)
C7_Coordinate2DLifted ==
    (GraphBuilt /\ \E i \in 1..Len(rq_nodes) : "z" \notin DOMAIN rq_nodes[i].coordinate) =>
        /\ rq_exc.type # "AttributeError"
        /\ (rq_pc = "done" /\ rq_endpoint = "validate" /\ rq_exc = NoExc) =>
              /\ rq_response.kind = "ValidationResponseDTO"
              /\ rq_response.valid
              /\ Cardinality({c \in 1..Len(rq_calls) :
                                 /\ rq_calls[c].op = "add_physical_node"
                                 /\ Len(rq_calls[c].args) = 3}) = Len(rq_nodes)

(***************************************************************************)
(* C10: for a request that passes schema parsing, /api/validate and        *)
(* /api/validate-schedule answer with a ValidationResponse body whatever   *)
(* the converter or the engine does, and in it valid is true exactly when  *)
(* the errors list is empty.                                               *)
(***************************************************************************)
C10_ValidationAlwaysAnswers ==
    (/\ rq_pc = "done"
     /\ rq_endpoint \in {"validate", "validate_schedule"}
     /\ rq_response.kind # "RequestValidationError") =>
        /\ rq_response.kind = "ValidationResponseDTO"
        /\ rq_response.valid <=> rq_response.errors = <<>>
        /\ rq_response.valid <=> rq_exc = NoExc

\* /api/validate has answered after something other than ValueError was raised.
C10_Witness ==
    /\ rq_pc = "done"
    /\ rq_endpoint = "validate"
    /\ rq_exc.type \notin {"none", "ValueError"}
    /\ rq_response.kind = "ValidationResponseDTO"
    /\ ~rq_response.valid
    /\ Len(rq_response.errors) = 1

(***************************************************************************)
(* C11: every engine-reported violation message in the errors list of      *)
(* /api/validate and of /api/validate-schedule is id-translated: where the *)
(* engine's text names a mapped node index after 'node', the returned      *)
(* message shows the node's id, never the raw index.                       *)
(***************************************************************************)
C11_ViolationMessagesTranslated ==
    (/\ rq_pc = "done"
     /\ rq_response.kind = "ValidationResponseDTO"
     /\ rq_exc.type = "ValueError"
     /\ rq_exc.message = MsgNode0
     /\ DictHas(ReverseMap(rq_node_map), 0)) =>
        /\ Len(rq_response.errors) = 1
        /\ rq_response.errors[1].message
              = LitNode \o DictGet(ReverseMap(rq_node_map), 0)

(***************************************************************************)
(* C12: in every endpoint an unexpected failure (not a schema error, an    *)
(* engine-reported violation or a solver failure) is caught and answered   *)
(* with a generic message: the exception never leaves the handler and its  *)
(* text is never placed in the response.                                   *)
(***************************************************************************)
C12_InternalFailuresGeneric ==
    (/\ rq_pc = "done"
     /\ rq_exc.type \notin {"none", "ValueError"}
     /\ rq_exc.at # "solve_schedule") =>
        /\ rq_response.kind # "unhandled"
        /\ rq_response.kind = "ValidationResponseDTO" =>
              \A k \in 1..Len(rq_response.errors) :
                  rq_response.errors[k].message # rq_exc.message

(***************************************************************************)
(* C13: in /api/schedule, when the solver raises or reports no solution,   *)
(* the request ends as a rejected request (an error response, not a        *)
(* ScheduleResult and not a valid:false body) after exactly one solve      *)
(* attempt; within one request solve_schedule is called at most once.      *)
(***************************************************************************)
SolveCalls == {i \in 1..Len(rq_calls) : rq_calls[i].op = "solve_schedule"}

C13_SolverFailureRejectsOnce ==
    /\ Cardinality(SolveCalls) <= 1
    /\ SolveCalls # {} => rq_pc = "done" /\ rq_endpoint = "schedule"
    /\ \A i \in SolveCalls :
          (rq_calls[i].raised \/ rq_calls[i].returned = Some(FALSE)) =>
              /\ i = Len(rq_calls)
              /\ rq_response.kind = "HTTPException"
              /\ rq_response.status_code = 400

\* The solver returned False and the request was answered with an error.
C13_Witness ==
    /\ rq_pc = "done"
    /\ \E i \in SolveCalls : ~rq_calls[i].raised /\ rq_calls[i].returned = Some(FALSE)
    /\ rq_response.kind = "HTTPException"

(***************************************************************************)
(* C14: the timeout bounding the schedule solve is supplied by the caller: *)
(* the timeout handed to solve_schedule equals the timeout given in the    *)
(* request.                                                                *)
(***************************************************************************)
C14_TimeoutIsCallerSupplied ==
    \A i \in SolveCalls :
        rq_timeout # None => rq_calls[i].args[1].timeout = rq_timeout[1]

(***************************************************************************)
(* C15: in every request the stages run in the order parse, validate,      *)
(* build graph and ids, engine call, translate, respond, and a failure in  *)
(* a stage goes directly to the response; no engine operation is performed *)
(* for a request whose payload fails parsing, the role table, edge-id      *)
(* canonicality or the strategy selector check.                            *)
(***************************************************************************)
StageSteps ==
    { <<"idle", "parse">>, <<"parse", "handler">>, <<"parse", "done">>,
      <<"handler", "built">>, <<"built", "done">>, <<"done", "idle">> }

\* A rejected request has touched neither the engine nor the id maps.
RejectedUntouched ==
    /\ rq_response.kind = "RequestValidationError" =>
          /\ rq_pc = "done"
          /\ rq_calls = <<>>
          /\ rq_node_map = EmptyDict
          /\ rq_reverse_map = EmptyDict
          /\ rq_exc = NoExc
    /\ (rq_parsed.kind # "none" /\ ~rq_parsed.ok) =>
          rq_response.kind = "RequestValidationError"
    /\ (rq_endpoint = "schedule" /\ rq_strategy \notin Strategies \cup {"none"}) =>
          rq_response.kind = "RequestValidationError"

C15_PipelineOrder ==
    /\ []RejectedUntouched
    /\ [][rq_pc' # rq_pc => <<rq_pc, rq_pc'>> \in StageSteps]_vars
    /\ [][rq_calls' # rq_calls => (rq_pc \in {"handler", "built"} \/ rq_pc' = "idle")]_vars
    /\ [][rq_node_map' # rq_node_map => (rq_pc = "handler" \/ rq_pc' = "idle")]_vars
    /\ [][(rq_pc = "built" /\ rq_exc # NoExc) =>
              (rq_pc' = "done" /\ rq_calls' = rq_calls /\ rq_response' # NoResponse)]_vars

\* /api/schedule has refused an unknown strategy for a project with nodes.
C15_Witness ==
    /\ rq_pc = "done"
    /\ rq_endpoint = "schedule"
    /\ rq_strategy \notin Strategies
    /\ rq_nodes # <<>>
    /\ rq_response.kind = "RequestValidationError"
    /\ rq_calls = <<>>

(***************************************************************************)
(* C17: /api/compute-zflow returns, for every x-flow key v that is a known *)
(* node id, an entry v whose value is exactly the ids of the graph nodes   *)
(* adjacent to an odd number of members of v's known x-flow targets; it    *)
(* returns no entry for any other id, and the empty mapping when the       *)
(* x-flow is empty.                                                        *)
(***************************************************************************)
KnownIds == {rq_nodes[i].id : i \in 1..Len(rq_nodes)}

\* The project has an edge between the nodes n and t.
EdgeBetween(n, t) ==
    \E e \in 1..Len(rq_edges) : {rq_edges[e].source, rq_edges[e].target} = {n, t}

OddNeighbourIds(targets) ==
    LET T == {targets[j] : j \in 1..Len(targets)} \cap KnownIds
    IN  {n \in KnownIds : Cardinality({t \in T : EdgeBetween(n, t)}) % 2 = 1}

C16_ClosedSchemas ==
    (sm_result # "none" /\ sm_fields \ ModelTable[sm_model].declared # {}) =>
        sm_result # "ok"

(***************************************************************************)
(* C18: translate_error_message replaces every occurrence of the three     *)
(* pattern classes in the engine text by its id form: a bracketed integer  *)
(* list becomes the bracketed list of ids, 'node <int>' becomes            *)
(* 'node <id>', 'Edge (<int>, <int>)' and 'edge (<int>, <int>)' become the *)
(* same with ids and the prefix kept; an unmapped index is rendered as     *)
(* '?<index>'; everything else is left as it is.                           *)
(***************************************************************************)
\* The id form of an index.
IdForm(index) ==
    IF DictHas(tr_map, index) THEN DictGet(tr_map, index) ELSE <<63>> \o IntToStr(index)

\* The id form of one piece of the engine's text.
PieceIdForm(piece) ==
    IF piece.kind = "text" THEN piece.text
    ELSE IF piece.kind = "node" THEN <<110, 111, 100, 101, 32>> \o IdForm(piece.index)
    ELSE IF piece.kind = "list"
    THEN <<91>> \o Join([k \in 1..Len(piece.indices) |-> IdForm(piece.indices[k])],
                        <<44, 32>>) \o <<93>>
    ELSE piece.prefix \o <<32, 40>> \o IdForm(piece.u) \o <<44, 32>>
         \o IdForm(piece.v) \o <<41>>

C18_EveryPatternTranslated ==
    tr_result.done =>
        tr_result.text = Join([k \in 1..Len(tr_pieces) |-> PieceIdForm(tr_pieces[k])], <<32>>)

(***************************************************************************)
(* C19: for any interleaving of requests handled at the same time, the id  *)
(* map, the engine graph and the translated result of a request are those  *)
(* the same request gets when it is handled alone: no state is shared.     *)
(***************************************************************************)
\* dto_to_graphstate of request r's project, run from start to end.
AloneBuild(r) == dto_to_graphstate(ProjectNodes(cc_request[r].ids), <<>>, 0)

C19_RequestsAreIndependent ==
    \A r \in DOMAIN cc_pc :
        /\ cc_pc[r] \in {"respond", "done"} =>
              /\ cc_calls[r] = AloneBuild(r).calls
              /\ cc_node_map[r] = AloneBuild(r).node_map
              /\ cc_reverse_map[r] = ReverseMap(AloneBuild(r).node_map)
        /\ cc_pc[r] = "done" =>
              cc_response[r] = validate_schedule_response(
                                   cc_request[r].outcome,
                                   ReverseMap(AloneBuild(r).node_map))

\* Two requests whose node loops ran together have both been answered, each
\* with the id its own node 0 has.
C19_Witness ==
    /\ cc_overlapped
    /\ cc_pc = [r \in Requests |-> "done"]
    /\ cc_request[1].ids = <<IdA, IdB>>
    /\ cc_request[2].ids = <<IdB, IdA>>
    /\ cc_response[1].errors = <<[type |-> "schedule_validation", message |-> LitNode \o IdA]>>
    /\ cc_response[2].errors = <<[type |-> "schedule_validation", message |-> LitNode \o IdB]>>

(***************************************************************************)
(* C20: dto_to_flow gives, for xflow and for a manual zflow, an entry for  *)
(* map[k] exactly for the keys k the forward map has, whose value is the   *)
(* set of map[t] for the targets t of k the map has: unknown keys and      *)
(* targets are dropped, repeated targets collapse, a known key whose       *)
(* targets are all unknown keeps the empty set; zflow "auto" gives None    *)
(* and xflow is translated all the same.                                   *)
(***************************************************************************)
\* The target list the wire flow has under key k.
WireTargets(wire, k) == wire[CHOOSE i \in 1..Len(wire) : wire[i][1] = k][2]

\* out is the translation of the wire flow the claim describes.
TranslatedAsStated(wire, node_map, out) ==
    LET known == DictKeys(node_map)
        keys == {wire[i][1] : i \in 1..Len(wire)} \cap known
        index(id) == node_map[CHOOSE n \in 1..Len(node_map) : node_map[n][1] = id][2]
    IN  /\ {out[i][1] : i \in 1..Len(out)} = {index(k) : k \in keys}
        /\ \A i, j \in 1..Len(out) : out[i][1] = out[j][1] => i = j
        /\ \A k \in keys : \E i \in 1..Len(out) :
              /\ out[i][1] = index(k)
              /\ out[i][2] = {index(t) : t \in {WireTargets(wire, k)[j] :
                                                   j \in 1..Len(WireTargets(wire, k))}
                                                \cap known}

C20_FlowTranslatedByMap ==
    fl_result # None =>
        /\ TranslatedAsStated(fl_flow.xflow, fl_node_map, fl_result[1].xflow)
        /\ fl_flow.zflow.auto => fl_result[1].zflow = None
        /\ ~fl_flow.zflow.auto =>
              /\ fl_result[1].zflow # None
              /\ TranslatedAsStated(fl_flow.zflow.map, fl_node_map, fl_result[1].zflow[1])

\* zflow is "auto"; xflow has a known key whose only target is unknown, an
\* unknown key, and a known key with a repeated target.
C20_Witness ==
    /\ fl_node_map = NodeMapOf(<<IdB, IdA>>)
    /\ fl_flow.zflow.auto
    /\ fl_flow.xflow = <<<<IdB, <<IdAbsent>>>>, <<IdA, <<IdA, IdA>>>>>>
    /\ fl_result = Some([xflow |-> <<<<0, {}>>, <<1, {1}>>>>, zflow |-> None])

\* A manual zflow whose key is unknown is translated to the empty dict, and
\* an unknown xflow key leaves no entry.
C20_WitnessManual ==
    /\ fl_flow.xflow = <<<<IdAbsent, <<IdA>>>>, <<IdA, <<IdAbsent, IdB>>>>>>
    /\ fl_flow.zflow = [auto |-> FALSE, map |-> <<<<IdAbsent, <<IdA>>>>>>]
    /\ fl_node_map = NodeMapOf(<<IdA, IdB>>)
    /\ fl_result = Some([xflow |-> <<<<0, {1}>>>>, zflow |-> Some(<<>>)])

(***************************************************************************)
(* C21: in the calls dto_to_graphstate makes on the engine graph, every    *)
(* node of the project is added before the first edge, every edge before   *)
(* the first input/output registration, every registration before the     *)
(* first basis assignment, and every node index passed to an edge, a       *)
(* registration or an assignment has been returned by an earlier           *)
(* add_physical_node.                                                      *)
(***************************************************************************)
BuildRank(op) ==
    CASE op = "add_physical_node" -> 1
      [] op = "add_physical_edge" -> 2
      [] op \in {"register_input", "register_output"} -> 3
      [] op = "assign_meas_basis" -> 4
      [] OTHER -> 5

\* The node indices a builder call names.
IndicesNamed(call) ==
    CASE call.op = "add_physical_edge" -> {call.args[1], call.args[2]}
      [] call.op \in {"register_input", "register_output", "assign_meas_basis"} ->
            {call.args[1]}
      [] OTHER -> {}

\* The indices the engine has returned before call i of the log.
ReturnedBefore(calls, i) ==
    0..(Cardinality({j \in 1..(i - 1) :
                        calls[j].op = "add_physical_node" /\ ~calls[j].raised}) - 1)

C21_BuilderOrder ==
    \A i \in 1..Len(rq_calls) :
        BuildRank(rq_calls[i].op) <= 4 =>
            /\ \A j \in 1..(i - 1) : BuildRank(rq_calls[j].op) <= BuildRank(rq_calls[i].op)
            /\ BuildRank(rq_calls[i].op) >= 2 =>
                  Cardinality(ReturnedBefore(rq_calls, i)) = Len(rq_nodes)
            /\ IndicesNamed(rq_calls[i]) \subseteq ReturnedBefore(rq_calls, i)

\* A build that went through all four loops: two nodes, an edge, a
\* registration and a basis assignment.
C21_Witness ==
    /\ rq_pc = "built"
    /\ rq_exc = NoExc
    /\ Len(rq_nodes) = 2
    /\ {BuildRank(rq_calls[i].op) : i \in 1..Len(rq_calls)} = {1, 2, 3, 4}

(***************************************************************************)
(* C22: schedule_to_dto drops every engine entry that has no reverse       *)
(* mapping and keeps every other entry with its time unchanged; every key  *)
(* of prepareTime and measureTime is a mapped node id, every key of        *)
(* entangleTime and every timeline edge is normalize_edge_id of two mapped *)
(* ids.  Stated for engine schedules whose edge keys are (min, max) pairs. *)
(***************************************************************************)
SchedId(k) == sc_ids[k + 1]

SchedMapped(k) == k < Len(sc_ids)

CanonicalEdgeKeys ==
    \A e \in DictKeys(sc_engine.entangle_time) : e[1] <= e[2]

\* The wire node times are the engine's mapped entries under their ids.
NodeTimesKept(engine_times, wire_times) ==
    /\ DictKeys(wire_times) = {SchedId(k) : k \in {n \in DictKeys(engine_times) : SchedMapped(n)}}
    /\ \A k \in DictKeys(engine_times) :
          SchedMapped(k) => DictGet(wire_times, SchedId(k)) = DictGet(engine_times, k)

EdgeTimesKept(engine_times, wire_times) ==
    LET mapped == {e \in DictKeys(engine_times) : SchedMapped(e[1]) /\ SchedMapped(e[2])}
    IN  /\ DictKeys(wire_times) =
              {normalize_edge_id(SchedId(e[1]), SchedId(e[2])) : e \in mapped}
        /\ \A e \in mapped :
              DictGet(wire_times, normalize_edge_id(SchedId(e[1]), SchedId(e[2])))
                 = DictGet(engine_times, e)

TimelineIdsMapped(timeline) ==
    \A i \in 1..Len(timeline) :
        /\ \A j \in 1..Len(timeline[i].prepareNodes) :
              \E k \in 1..Len(sc_ids) : timeline[i].prepareNodes[j] = sc_ids[k]
        /\ \A j \in 1..Len(timeline[i].measureNodes) :
              \E k \in 1..Len(sc_ids) : timeline[i].measureNodes[j] = sc_ids[k]
        /\ \A j \in 1..Len(timeline[i].entangleEdges) :
              \E k, l \in 1..Len(sc_ids) :
                 timeline[i].entangleEdges[j] = normalize_edge_id(sc_ids[k], sc_ids[l])

C22_UnmappedDroppedOthersKept ==
    (sc_stage >= 1 /\ CanonicalEdgeKeys) =>
        /\ NodeTimesKept(sc_engine.prepare_time, sc_wire.prepareTime)
        /\ NodeTimesKept(sc_engine.measure_time, sc_wire.measureTime)
        /\ EdgeTimesKept(sc_engine.entangle_time, sc_wire.entangleTime)
        /\ TimelineIdsMapped(sc_wire.timeline)

(***************************************************************************)
(* C23: the timeline schedule_to_dto returns has as many slices as the     *)
(* engine's, in the same order, and the slice at position i (from 0) has   *)
(* time i, whatever label the engine's slice carried and even when every   *)
(* node and edge of the slice was dropped as unmapped.                     *)
(***************************************************************************)
\* The ids of the mapped indices of a list, as a set.
MappedIdsOf(indices) ==
    {SchedId(indices[j]) : j \in {n \in 1..Len(indices) : SchedMapped(indices[n])}}

C23_TimelineRenumbered ==
    sc_stage >= 1 =>
        /\ Len(sc_wire.timeline) = Len(sc_engine.timeline)
        /\ \A i \in 1..Len(sc_wire.timeline) :
              /\ sc_wire.timeline[i].time = i - 1
              /\ {sc_wire.timeline[i].prepareNodes[j] :
                     j \in 1..Len(sc_wire.timeline[i].prepareNodes)}
                    = MappedIdsOf(sc_engine.timeline[i].prepare_nodes)
              /\ {sc_wire.timeline[i].measureNodes[j] :
                     j \in 1..Len(sc_wire.timeline[i].measureNodes)}
                    = MappedIdsOf(sc_engine.timeline[i].measure_nodes)

\* Two engine slices labelled 7 and 3 of a project without nodes: both are
\* kept, empty, as slices 0 and 1.
C23_Witness ==
    /\ sc_stage >= 1
    /\ sc_ids = <<>>
    /\ Len(sc_engine.timeline) = 2
    /\ sc_engine.timeline[1].time = 7
    /\ sc_engine.timeline[2].time = 3
    /\ sc_wire.timeline =
          <<[time |-> 0, prepareNodes |-> <<>>, entangleEdges |-> <<>>, measureNodes |-> <<>>],
            [time |-> 1, prepareNodes |-> <<>>, entangleEdges |-> <<>>, measureNodes |-> <<>>]>>

(***************************************************************************)
(* C24: dto_to_schedule drops an entangleTime entry whose key does not     *)
(* split on '-' into exactly two known node ids, and stores every other    *)
(* entry under (min(u, v), max(u, v)) of the two mapped indices; node      *)
(* times of unknown ids are dropped; every key of the result is a mapped   *)
(* index or a pair of mapped indices with first <= second.                 *)
(***************************************************************************)
LoadIndex(id) == (CHOOSE k \in 1..Len(ld_ids) : ld_ids[k] = id) - 1

LoadKnown(id) == \E k \in 1..Len(ld_ids) : ld_ids[k] = id

\* The two ids an edge key names: two known ids without a separator in
\* them, joined by one separator.  The empty set if there are none.
EndsNamed(key) ==
    {xy \in {z \in SchedIdPool \X SchedIdPool : LoadKnown(z[1]) /\ LoadKnown(z[2])} :
        /\ \A n \in 1..Len(xy[1]) : <<xy[1][n]>> # Separator
        /\ \A n \in 1..Len(xy[2]) : <<xy[2][n]>> # Separator
        /\ key = xy[1] \o Separator \o xy[2]}

\* The last entry of a wire dict that lands on the result key given.
LastTimeFor(wire, lands(_)) ==
    wire[CHOOSE i \in 1..Len(wire) :
            /\ lands(wire[i][1])
            /\ \A j \in (i + 1)..Len(wire) : ~lands(wire[j][1])][2]

LoadedNodeTimes(wire, out) ==
    /\ DictKeys(out) = {LoadIndex(k) : k \in {x \in DictKeys(wire) : LoadKnown(x)}}
    /\ \A k \in DictKeys(wire) : LoadKnown(k) => DictGet(out, LoadIndex(k)) = DictGet(wire, k)

C24_EdgeKeysSplitAndOrdered ==
    ld_result # NoSchedule =>
        LET wire == ld_schedule.entangleTime
            out == ld_result.entangle_time
            pair(key) == LET xy == CHOOSE z \in EndsNamed(key) : TRUE
                         IN  <<Min(LoadIndex(xy[1]), LoadIndex(xy[2])),
                               Max(LoadIndex(xy[1]), LoadIndex(xy[2]))>>
        IN  /\ LoadedNodeTimes(ld_schedule.prepareTime, ld_result.prepare_time)
            /\ LoadedNodeTimes(ld_schedule.measureTime, ld_result.measure_time)
            /\ DictKeys(out) = {pair(k) : k \in {x \in DictKeys(wire) : EndsNamed(x) # {}}}
            /\ \A i, j \in 1..Len(out) : out[i][1] = out[j][1] => i = j
            /\ \A e \in DictKeys(out) :
                  /\ e[1] <= e[2] /\ e[2] < Len(ld_ids)
                  /\ DictGet(out, e) =
                        LastTimeFor(wire, LAMBDA k : EndsNamed(k) # {} /\ pair(k) = e)

\* 'b-a' is stored under (0, 1); 'a-a-b', the canonical id of the edge
\* between 'a' and 'a-b', has three parts and is dropped.
C24_Witness ==
    /\ ld_ids = <<IdAB, IdA>>
    /\ ld_schedule.entangleTime = << <<IdA \o Separator \o IdAB, Some(1)>>,
                                     <<IdA \o Separator \o IdA, None>> >>
    /\ ld_result # NoSchedule
    /\ ld_result.entangle_time = << << <<1, 1>>, None >> >>

\* 'b-a' of the project a, b is stored under (0, 1).
C24_WitnessSwapped ==
    /\ ld_ids = <<IdA, IdB>>
    /\ ld_schedule.entangleTime = << <<IdB \o Separator \o IdA, Some(1)>> >>
    /\ ld_result # NoSchedule
    /\ ld_result.entangle_time = << << <<0, 1>>, Some(1) >> >>

(***************************************************************************)
(* C25: a coordinate payload with exactly the fields x, y, z parses as the *)
(* 3D variant with z preserved, one with exactly x, y as the 2D variant,   *)
(* and one with any other field set is rejected.                           *)
(***************************************************************************)
C25_CoordinateByFieldSet ==
    pj_parsed # None =>
        \A i \in 1..Len(pj_coordinates) :
            LET payload == pj_coordinates[i]
                parsed == pj_parsed[1].coordinates[i]
            IN  /\ DOMAIN payload = {"x", "y", "z"} =>
                      /\ parsed.variant = "Coordinate3D"
                      /\ DOMAIN parsed.value = {"x", "y", "z"}
                      /\ parsed.value.z = payload.z
                /\ DOMAIN payload = {"x", "y"} =>
                      /\ parsed.variant = "Coordinate2D"
                      /\ DOMAIN parsed.value = {"x", "y"}
                /\ DOMAIN payload \notin {{"x", "y", "z"}, {"x", "y"}} =>
                      parsed.variant = "rejected"

\* A 3D and a 2D coordinate have been parsed side by side.
C25_Witness ==
    /\ pj_parsed # None
    /\ Len(pj_coordinates) = 2
    /\ DOMAIN pj_coordinates[1] = {"x", "y", "z"}
    /\ DOMAIN pj_coordinates[2] = {"x", "y"}
    /\ pj_parsed[1].coordinates[1].variant = "Coordinate3D"
    /\ pj_parsed[1].coordinates[2].variant = "Coordinate2D"

C26_AtMostOneError ==
    (/\ rq_pc = "done"
     /\ rq_endpoint \in {"validate", "validate_schedule"}
     /\ rq_response.kind = "ValidationResponseDTO") =>
        /\ Len(rq_response.errors) <= 1
        /\ rq_response.errors = <<>> <=> rq_exc = NoExc
        /\ rq_exc.type = "ValueError" =>
              rq_response.errors[1].type =
                 IF rq_endpoint = "validate" THEN "validation" ELSE "schedule_validation"
        /\ rq_exc.type \notin {"none", "ValueError"} =>
              rq_response.errors[1].type = "error"
        /\ \A i \in 1..Len(rq_calls) : rq_calls[i].raised => i = Len(rq_calls)
        /\ (rq_exc # NoExc /\ rq_exc.at = "dto_to_graphstate") =>
              \A i \in 1..Len(rq_calls) : BuildRank(rq_calls[i].op) <= 4
        /\ (rq_exc # NoExc /\ rq_exc.at # "dto_to_graphstate") =>
              /\ rq_calls # <<>>
              /\ rq_calls[Len(rq_calls)].op = rq_exc.at
              /\ rq_calls[Len(rq_calls)].raised

\* manual_schedule raised ValueError: validate_schedule was never called and
\* the one error is a schedule_validation.
C26_Witness ==
    /\ rq_pc = "done"
    /\ rq_endpoint = "validate_schedule"
    /\ rq_exc.type = "ValueError"
    /\ rq_exc.at = "manual_schedule"
    /\ \A i \in 1..Len(rq_calls) : rq_calls[i].op # "validate_schedule"
    /\ Len(rq_response.errors) = 1
    /\ rq_response.errors[1].type = "schedule_validation"

(***************************************************************************)
(* C27: an edge whose source or target is not the id of any node passes    *)
(* schema validation and is not dropped by the graph builder:              *)
(* dto_to_graphstate fails on the id lookup after all nodes have been      *)
(* added, /api/validate answers valid = false with one error of type       *)
(* 'error', and /api/schedule and /api/compute-zflow do not catch it.      *)
(***************************************************************************)
NodeIds == {rq_nodes[i].id : i \in 1..Len(rq_nodes)}

HasDanglingEdge ==
    \E i \in 1..Len(rq_edges) :
        rq_edges[i].source \notin NodeIds \/ rq_edges[i].target \notin NodeIds

\* Nothing went wrong while the nodes and the edges before were added.
NothingRaisedByEngine ==
    /\ \A i \in 1..Len(rq_nodes) : "z" \in DOMAIN rq_nodes[i].coordinate
    /\ \A i \in 1..Len(rq_calls) : ~rq_calls[i].raised

C27_DanglingEdgeFailsBuild ==
    (/\ rq_pc \in {"built", "done"}
     /\ rq_response.kind # "RequestValidationError"
     /\ HasDanglingEdge) =>
        /\ rq_exc # NoExc
        /\ NothingRaisedByEngine => rq_exc.type = "KeyError"
        /\ rq_exc.type = "KeyError" =>
              /\ Cardinality({i \in 1..Len(rq_calls) :
                                 rq_calls[i].op = "add_physical_node"}) = Len(rq_nodes)
              /\ \A i \in 1..Len(rq_calls) : BuildRank(rq_calls[i].op) <= 2
              /\ (rq_pc = "done" /\ rq_endpoint = "validate") =>
                    /\ rq_response.kind = "ValidationResponseDTO"
                    /\ ~rq_response.valid
                    /\ Len(rq_response.errors) = 1
                    /\ rq_response.errors[1].type = "error"
              /\ (rq_pc = "done" /\ rq_endpoint \in {"schedule", "compute_zflow"}) =>
                    rq_response.kind = "unhandled"

\* /api/schedule has failed with the KeyError of an edge from 'a' to 'b' in
\* a project whose only node is 'a'.
C27_Witness ==
    /\ rq_pc = "done"
    /\ rq_endpoint = "schedule"
    /\ NodeIds = {IdA}
    /\ Len(rq_edges) = 1
    /\ rq_edges[1].target = IdB
    /\ rq_parsed.ok
    /\ rq_exc.type = "KeyError"
    /\ rq_response.kind = "unhandled"

OnlyPiecesOf(kinds) == \A k \in 1..Len(tr_pieces) : tr_pieces[k].kind \in kinds

C29_InsertedTextNotRescanned ==
    tr_result.done =>
        /\ OnlyPiecesOf({"text", "list"}) =>
              tr_result.text = ReSub("index_list", EngineText(tr_pieces), tr_map)
        /\ OnlyPiecesOf({"text", "node"}) =>
              tr_result.text = ReSub("single_node", EngineText(tr_pieces), tr_map)

=============================================================================
